---- MODULE Spec2Model ----
(***************************************************************************)
(* Firmware update session of obmc-yadro-fwupdate: main() dispatches to    *)
(* flash_firmware()/reset_firmware(), which construct the FwUpdate         *)
(* coordinator, route the package files to the registered updaters, verify *)
(* signatures, lock, install or reset, unlock, and destroy the coordinator.*)
(* Every step of the single thread is one action; `pc` is its position,    *)
(* `trace` the history of handler calls and external operations.           *)
(***************************************************************************)
EXTENDS Integers, Sequences, FiniteSets, TLC

\* ------------------------------------------------------------------ bounds
\* Largest number of payload files in a package.
MaxBundle == 2

\* ------------------------------------------------------------ file names
\* A path is kept as its stem and its extension (fs::path::stem/extension).
Path(stem, ext) == [stem |-> stem, ext |-> ext]

filename(file) == file.stem \o file.ext

PayloadNames ==
    { Path("foo", ".pnor"), Path("vegman", ".bin"), Path("image-bmc", ""),
      Path("image-runtime", ""), Path("image-u-boot", "") }

ArchiveName == Path("firmware", ".tar")

SIGNATURE_FILE_EXT == ".sig"

\* Faulty variant of OBMCPhosphorImageUpdater_isFileFlashable: PNOR images
\* are taken as well.
Mut_OBMC_isFileFlashable(file) ==
    \/ filename(file) \in { "image-bmc", "image-kernel", "image-rofs",
                            "image-rwfs", "image-u-boot" }
    \/ file.ext = ".pnor"

\* Faulty variant of BIOSUpdater_isFileFlashable: the stem is not looked
\* at.
Mut_BIOS_isFileFlashable(file) == file.ext = ".bin" \/ file.ext = ".img"

\* ------------------------------------------------------- updater classes
OpenPowerUpdater_isFileFlashable(file) == file.ext = ".pnor"

BIOSUpdater_isFileFlashable(file) ==
    file.stem = "vegman" /\ (file.ext = ".bin" \/ file.ext = ".img")

OBMCPhosphorImageUpdater_isFileFlashable(file) ==
    filename(file) \in { "image-bmc", "image-kernel", "image-rofs",
                         "image-rwfs", "image-u-boot" }

IntelPlatformsUpdater_isFileFlashable(file) ==
    filename(file) \in { "image-mtd", "image-runtime", "image-u-boot" }

isFileFlashable(kind, file) ==
    CASE kind = "PNOR"  -> OpenPowerUpdater_isFileFlashable(file)
      [] kind = "BIOS"  -> BIOSUpdater_isFileFlashable(file)
      [] kind = "OBMC"  -> OBMCPhosphorImageUpdater_isFileFlashable(file)
      [] kind = "INTEL" -> IntelPlatformsUpdater_isFileFlashable(file)

\* ------------------------------------------------- build configurations
\* rev "base1": FwUpdBase of src/src/fwupdbase.cpp with the first
\* IntelPlatformsUpdater of src/src/image_intel.cpp; rev "base2": FwUpdBase
\* of unnamed/part_029 with the second IntelPlatformsUpdater.
\* guard: REBOOT_GUARD_SUPPORT, pca: USE_PCA9698_OEPOL, golden:
\* GOLDEN_FLASH_SUPPORT.
Build(rev, host, bmc, guard, pca, golden) ==
    [rev |-> rev, host |-> host, bmc |-> bmc, guard |-> guard, pca |-> pca,
     golden |-> golden]

HeadBuilds ==
    { Build("base2", "PNOR", "OBMC", TRUE, FALSE, FALSE),
      Build("base2", "PNOR", "INTEL", FALSE, FALSE, FALSE),
      Build("base2", "BIOS", "OBMC", TRUE, TRUE, TRUE),
      Build("base2", "BIOS", "INTEL", FALSE, FALSE, FALSE) }

EarlierBuilds ==
    { Build("base1", "PNOR", "INTEL", FALSE, FALSE, FALSE) }

\* ------------------------------------------------------------- variables
VARIABLES
    cfg,        \* build configuration (config.h)
    opt,        \* command line: mode, reset, skip_sign_check, force
    pkg,        \* the firmware package: its name and the files in it
    fw,         \* FwUpdate: alive, tmpdir, locked
    updaters,   \* FwUpdate::updaters: kind, files, locked
    bios,       \* BIOSUpdater: gpio handles and pca9698FD
    hw,         \* hardware and services outside the process
    pc,         \* position of the thread
    i,          \* index of the updater the current loop is at
    ctx,        \* the FwUpdate member that runs lock()/unlock()
    exc,        \* exception in flight, "none" if none
    ret,        \* `ret` of FwUpdate::install
    exitCode,   \* exit status of the process, "none" while it runs
    trace,      \* history of handler calls and external operations
    frame       \* the object or the locals of the helper followed step by
                \* step: NvmX722, bindOrUnbindSPIDriver, unmountFilesystem

\* The variables of the update session.
session == << cfg, opt, pkg, fw, updaters, bios, hw, pc, i, ctx, exc, ret,
              exitCode, trace >>

vars == << session, frame >>

\* ----------------------------------------------------------------- events
Ev(e, u, a, r) == [e |-> e, u |-> u, a |-> a, r |-> r]

Log(evs) == trace' = trace \o evs

Log1(e, u, a, r) == Log(<< Ev(e, u, a, r) >>)

\* ------------------------------------------------------------------- Init
RECURSIVE SeqsOver(_, _)
SeqsOver(S, n) ==
    IF n = 0 THEN { << >> }
    ELSE LET shorter == SeqsOver(S, n - 1)
         IN shorter \cup
            { Append(s, x) : s \in { t \in shorter : Len(t) = n - 1 },
                             x \in S }

Distinct(s) == \A a, b \in 1..Len(s) : a # b => s[a] # s[b]

Bundles == { s \in SeqsOver(PayloadNames, MaxBundle) : Distinct(s) }

\* The machine this BMC is built for: OPENBMC_TARGET_MACHINE of
\* /etc/os-release.
ThisMachine == "vegman"

\* A package is an archive holding a bundle and a MANIFEST whose
\* MachineName is `machine` ("" when the key is absent), or one bare
\* firmware file.
PackagesOf(bundles, machines) ==
    { [name |-> ArchiveName, files |-> b, machine |-> m] :
        b \in bundles, m \in machines }
    \cup { [name |-> n, files |-> << >>, machine |-> ""] :
             n \in PayloadNames }

Packages == PackagesOf(Bundles, { ThisMachine })

\* No package: fwupdate --reset.
NoPackage == [name |-> ArchiveName, files |-> << >>, machine |-> ""]

\* The state of the signature of a file: it is "valid", does not match
\* ("mismatch"), cannot be decoded ("malformed"), or the file or its .sig
\* is "missing".
SigStates == { "valid", "mismatch", "malformed", "missing" }

\* An entry of the trust store SIGNED_IMAGE_CONF_PATH: a key and a hash
\* type, told by what they make of the signatures of the package's
\* MANIFEST and publickey.
TrustEntry(m, k) == [manifest |-> m, publickey |-> k]

\* The trust store: whether its directory can be listed, and its entries in
\* the order the directory iterator yields them.
TrustStore(readable, entries) == [readable |-> readable, entries |-> entries]

GoodStore == TrustStore(TRUE, << TrustEntry("valid", "valid") >>)
EmptyStore == TrustStore(TRUE, << >>)

Options ==
    { [mode |-> "flash", reset |-> r, skip_sign_check |-> s, force |-> f,
       interactive |-> y] :
        r \in BOOLEAN, s \in BOOLEAN, f \in BOOLEAN, y \in BOOLEAN }
    \cup { [mode |-> "reset", reset |-> FALSE, skip_sign_check |-> FALSE,
            force |-> f, interactive |-> y] : f \in BOOLEAN, y \in BOOLEAN }

\* A gpiod::line handle is "null" (empty) or "held" (a line this process
\* has requested as output).
NullBios ==
    [gpioPCHPower |-> "null", gpioBIOSSel |-> "null",
     gpioActiveFlashSel |-> "null", pca9698FD |-> FALSE]

\* No helper is followed step by step.
NoFrame == [fn |-> "none"]

\* The initial states over the given builds, options, packages, machine
\* names of the BMC and trust stores. The trust store and the machine name
\* are read by verify() only: where it is not called one value stands for
\* all.
InitOver(builds, opts, pkgs, machines, stores) ==
    /\ cfg \in builds
    /\ opt \in opts
    /\ IF opt.mode = "reset" THEN pkg = NoPackage ELSE pkg \in pkgs
    /\ hw \in { [daemonState |-> 0, guard |-> FALSE, spiBound |-> TRUE,
                 oepol |-> FALSE, machine |-> m, store |-> s] :
                   m \in machines, s \in stores }
    /\ (opt.mode = "reset" \/ opt.skip_sign_check)
          => hw.store = GoodStore /\ hw.machine = ThisMachine
    /\ fw = [alive |-> FALSE, tmpdir |-> FALSE, locked |-> FALSE]
    /\ updaters = << >>
    /\ bios = NullBios
    /\ pc = "main"
    /\ i = 0
    /\ ctx = "none"
    /\ exc = "none"
    /\ ret = FALSE
    /\ exitCode = "none"
    /\ trace = << >>
    /\ frame = NoFrame

InitWith(builds) ==
    InitOver(builds, Options, Packages, { ThisMachine },
             { GoodStore, EmptyStore })

Init == InitWith(HeadBuilds)

\* ----------------------------------------------------------- control flow
Goto(p, k, c) ==
    /\ pc' = p
    /\ i' = k
    /\ ctx' = c
    /\ UNCHANGED << exc, exitCode >>

\* A C++ exception leaves the running function. Before FwUpdate exists it
\* goes to the catch of main(). While FwUpdate is alive the stack unwinding
\* runs ~FwUpdate(), which starts with unlock(). An exception that leaves
\* ~FwUpdate() itself (a destructor is noexcept) ends in std::terminate().
Throw(msg) ==
    IF ~fw.alive
    THEN /\ pc' = "exit" /\ i' = 0 /\ ctx' = "none"
         /\ exc' = msg /\ UNCHANGED exitCode
    ELSE IF ctx = "dtor"
    THEN /\ pc' = "terminated" /\ i' = i /\ ctx' = ctx
         /\ exc' = exc /\ exitCode' = "abort"
    ELSE /\ pc' = "unlock" /\ i' = 1 /\ ctx' = "dtor"
         /\ exc' = msg /\ UNCHANGED exitCode

\* FwUpdate::lock() has returned to install() or reset().
LockDone == Goto(ctx, 1, ctx)

\* FwUpdate::unlock() has returned to install(), reset() or ~FwUpdate().
UnlockDone ==
    Goto(IF ctx = "dtor" THEN "dtor" ELSE "tail", 0, ctx)

\* The end of the scope of `FwUpdate fwupdate`: ~FwUpdate() starts.
ScopeExit == Goto("unlock", 1, "dtor")

\* --------------------------------------------------------------- main()
\* main() with --file or --reset: flash_firmware() or reset_firmware() up to
\* the construction of FwUpdate. The package may be missing; in interactive
\* mode the user may decline.
Main ==
    /\ pc = "main"
    /\ \E exists \in BOOLEAN, yes \in BOOLEAN :
        /\ opt.interactive \/ yes
        /\ (opt.mode = "reset") => exists
        /\ IF ~exists
           THEN /\ Throw("Firmware package not found!")
                /\ Log1("exists", "main", filename(pkg.name), "false")
           ELSE IF ~yes
           THEN /\ Goto("exit", 0, "none")
                /\ Log1("confirm", "main", "", "false")
           ELSE /\ Goto("ctor", 0, "none")
                /\ UNCHANGED trace
    /\ UNCHANGED << frame, cfg, opt, pkg, fw, updaters, bios, hw, ret >>

Updater(kind) == [kind |-> kind, files |-> << >>, locked |-> FALSE]

\* FwUpdate::FwUpdate(force): createTmpDir() and the registration of the
\* updaters the build enables, the host updater before the BMC updater.
FwUpdate_ctor ==
    /\ pc = "ctor"
    /\ \E mkdtemp \in BOOLEAN :
        IF ~mkdtemp
        THEN /\ Throw("mkdtemp() failed")
             /\ UNCHANGED << fw, updaters >>
        ELSE /\ fw' = [alive |-> TRUE, tmpdir |-> TRUE, locked |-> FALSE]
             /\ updaters' = << Updater(cfg.host), Updater(cfg.bmc) >>
             /\ IF opt.mode = "flash"
                THEN Goto("unpack", 0, "none")
                ELSE Goto("lock", 0, "reset")
    /\ UNCHANGED << frame, cfg, opt, pkg, bios, hw, ret, trace >>

\* FwUpdBase::add(file): the file is recorded iff isFileFlashable(file).
FwUpdBase_add(u, file) ==
    IF isFileFlashable(u.kind, file)
    THEN [u EXCEPT !.files = Append(@, file)]
    ELSE u

\* FwUpdate::addFile(file) applied to every updater.
addFile(us, file) ==
    IF file.ext # SIGNATURE_FILE_EXT
    THEN [k \in 1..Len(us) |-> FwUpdBase_add(us[k], file)]
    ELSE us

RECURSIVE addFiles(_, _)
addFiles(us, files) ==
    IF files = << >> THEN us
    ELSE addFiles(addFile(us, Head(files)), Tail(files))

\* FwUpdate::unpack(path): a bare firmware file is taken as it is; anything
\* else is extracted with tar and every extracted file is offered to every
\* updater, in the order the directory iterator yields them.
FwUpdate_unpack ==
    /\ pc = "unpack"
    /\ LET bare == addFile(updaters, pkg.name)
       IN IF bare # updaters
          THEN /\ updaters' = bare
               /\ UNCHANGED trace
               /\ Goto(IF opt.skip_sign_check THEN "lock" ELSE "verify",
                       0, "install")
          ELSE \E tar \in BOOLEAN :
                IF ~tar
                THEN /\ Throw("tar failed")
                     /\ Log1("cmd", "fw", "tar", "fail")
                     /\ UNCHANGED updaters
                ELSE /\ updaters' = addFiles(updaters, pkg.files)
                     /\ Log1("cmd", "fw", "tar", "ok")
                     /\ Goto(IF opt.skip_sign_check THEN "lock" ELSE "verify",
                             0, "install")
    /\ UNCHANGED << frame, cfg, opt, pkg, fw, bios, hw, ret >>

\* ----------------------------------------------------------------- verify

\* verifyFile(keyFile, hashFunc, filePath): throws when a file is missing or
\* the digest verification reports an error, else returns result == 1.
verifyFile(sig) ==
    CASE sig = "missing"   -> "throw"
      [] sig = "malformed" -> "throw"
      [] sig = "mismatch"  -> "false"
      [] sig = "valid"     -> "true"

\* One turn of the loop of systemLevelVerify(): the MANIFEST is verified
\* with the entry's key, and the publickey only when the MANIFEST passed;
\* an exception of verifyFile() is caught and counts as not valid.
systemLevelVerify_entry(entry) ==
    LET m == Ev("verifyFile", "fw", "MANIFEST", entry.manifest)
        k == Ev("verifyFile", "fw", "publickey", entry.publickey)
    IN IF verifyFile(entry.manifest) = "true"
       THEN [valid |-> verifyFile(entry.publickey) = "true",
             evs |-> << m, k >>]
       ELSE [valid |-> FALSE, evs |-> << m >>]

\* Faulty variant of systemLevelVerify_loop: the first entry decides.
Mut_systemLevelVerify_loop(entries) ==
    IF entries = << >> THEN [valid |-> FALSE, evs |-> << >>]
    ELSE systemLevelVerify_entry(Head(entries))

\* The loop of systemLevelVerify() over the entries of the trust store: it
\* is left at the first entry that validates both files.
RECURSIVE systemLevelVerify_loop(_)
systemLevelVerify_loop(entries) ==
    IF entries = << >> THEN [valid |-> FALSE, evs |-> << >>]
    ELSE LET r == systemLevelVerify_entry(Head(entries))
         IN IF r.valid THEN r
            ELSE LET rest == systemLevelVerify_loop(Tail(entries))
                 IN [valid |-> rest.valid, evs |-> r.evs \o rest.evs]

\* FwUpdate::systemLevelVerify() after the two files were found: a trust
\* store that cannot be listed (fs::filesystem_error) gives valid = false.
systemLevelVerify(store) ==
    IF ~store.readable THEN [valid |-> FALSE, evs |-> << >>]
    ELSE systemLevelVerify_loop(store.entries)

\* FwUpdate::checkMachineType(): skipped with a warning when the BMC does
\* not know its machine name, else the name must equal MachineName of the
\* MANIFEST (the empty string when the MANIFEST has no such key).
checkMachineType(currentMachine, targetMachine) ==
    IF currentMachine = "" THEN "skipped"
    ELSE IF currentMachine # targetMachine THEN "throw"
    ELSE "ok"

\* FwUpdate::verify() of unnamed/part_028 goes from systemLevelVerify() to
\* the updaters; that of src/src/fwupdate.cpp calls check_machine_type() in
\* between.
FwUpdate_verify_checksMachine == FALSE
FwUpdate_verify_checksMachine_base1 == TRUE
verifyChecksMachine(rev) ==
    IF rev = "base1" THEN FwUpdate_verify_checksMachine_base1
    ELSE FwUpdate_verify_checksMachine

\* FwUpdate::verify() up to the loop over the updaters: systemLevelVerify()
\* with its lookup of the MANIFEST and the public key in the temporary
\* directory, which is empty when the package was a bare file, and the
\* machine type check where verify() makes it.
FwUpdate_verify ==
    /\ pc = "verify"
    /\ \E found \in BOOLEAN, foundKey \in BOOLEAN :
        /\ (pkg.name # ArchiveName) => ~found
        /\ LET sys == systemLevelVerify(hw.store)
               mt  == checkMachineType(hw.machine, pkg.machine)
               pre == << Ev("verify", "fw", "", "") >>
           IN IF ~found
              THEN /\ Throw("MANIFEST not found!")
                   /\ Log(pre \o
                          << Ev("getFWFile", "fw", "MANIFEST", "throw") >>)
              ELSE IF ~foundKey
              THEN /\ Throw("publickey not found!")
                   /\ Log(pre \o
                          << Ev("getFWFile", "fw", "publickey", "throw") >>)
              ELSE IF ~sys.valid
              THEN /\ Throw("System level verification failed!")
                   /\ Log(pre \o sys.evs \o
                          << Ev("systemLevelVerify", "fw", "", "throw") >>)
              ELSE IF verifyChecksMachine(cfg.rev) /\ mt = "throw"
              THEN /\ Throw("Firmware package is not compatible")
                   /\ Log(pre \o sys.evs \o
                          << Ev("systemLevelVerify", "fw", "", "ok"),
                             Ev("checkMachineType", "fw", "", "throw") >>)
              ELSE /\ Goto("verify_upd", 1, ctx)
                   /\ Log(pre \o sys.evs \o
                          << Ev("systemLevelVerify", "fw", "", "ok") >> \o
                          (IF verifyChecksMachine(cfg.rev)
                           THEN << Ev("checkMachineType", "fw", "", mt) >>
                           ELSE << >>))
    /\ UNCHANGED << frame, cfg, opt, pkg, fw, updaters, bios, hw, ret >>

\* Faulty variant of the test below: the value verifyFile() returns is
\* dropped, only its exceptions stop the loop.
Mut_verify_stops(result) == result = "throw"

\* FwUpdBase::verify of unnamed/part_029: the loop stops with an exception
\* at the first file for which verifyFile() throws or returns false.
FwUpdBase_verify_stops(result) == result # "true"

\* FwUpdBase::verify of src/src/fwupdbase.cpp: the value verifyFile() returns
\* is not looked at; the loop stops only when verifyFile() throws.
FwUpdBase_verify_stops_base1(result) == result = "throw"

verifyStops(rev, result) ==
    IF rev = "base1" THEN FwUpdBase_verify_stops_base1(result)
    ELSE FwUpdBase_verify_stops(result)

\* Index of the file at which the loop of FwUpdBase::verify stops, 0 if none.
StopIndex(rev, sigs) ==
    LET stops == { k \in 1..Len(sigs) : verifyStops(rev, verifyFile(sigs[k])) }
    IN IF stops = {} THEN 0
       ELSE CHOOSE k \in stops : \A m \in stops : k <= m

\* FwUpdBase::verify(publicKey, hashFunc) of updater i, and the loop step of
\* FwUpdate::verify() around it.
FwUpdBase_verify ==
    /\ pc = "verify_upd"
    /\ LET u == updaters[i]
           n == Len(u.files)
       IN \E sigs \in [1..n -> SigStates] :
            LET stop == StopIndex(cfg.rev, sigs)
                last == IF stop = 0 THEN n ELSE stop
                evs  == [k \in 1..last |->
                           Ev("verifyFile", u.kind, filename(u.files[k]),
                              sigs[k])]
            IN IF stop # 0
               THEN /\ Throw("signature verification failed!")
                    /\ Log(evs)
               ELSE IF i < Len(updaters)
               THEN /\ Goto("verify_upd", i + 1, ctx)
                    /\ Log(evs)
               ELSE /\ Goto("lock", 0, ctx)
                    /\ Log(evs \o << Ev("verified", "fw", "", "") >>)
    /\ UNCHANGED << frame, cfg, opt, pkg, fw, updaters, bios, hw, ret >>

\* ------------------------------------------------------------------- lock
SetLocked(k, b) == updaters' = [updaters EXCEPT ![k].locked = b]

\* Faulty variant of the order below: a forward loop.
Mut_LockAt(k) == k

\* The loop of FwUpdate::lock() goes over updaters.rbegin()..rend(): its
\* k-th step is at the k-th updater counted from the last one registered.
LockAt(k) == Len(updaters) + 1 - k

LockNext == IF i < Len(updaters) THEN Goto("lock_upd", i + 1, ctx) ELSE LockDone

\* Faulty variant of FwUpdate_lock_skips: --force is not looked at.
Mut_lock_skips(force) == FALSE

\* `if (!force)` of FwUpdate::lock(): with --force the body is skipped.
FwUpdate_lock_skips(force) == force

\* FwUpdate::lock() up to its loop: nothing at all with --force, else the
\* reboot guard is started (REBOOT_GUARD_SUPPORT) and `locked` is set.
FwUpdate_lock ==
    /\ pc = "lock"
    /\ IF FwUpdate_lock_skips(opt.force)
       THEN /\ LockDone
            /\ UNCHANGED << fw, hw, trace >>
       ELSE IF ~cfg.guard
       THEN /\ Goto("lock_upd", 1, ctx)
            /\ UNCHANGED << fw, hw, trace >>
       ELSE \E started \in BOOLEAN :
            IF ~started
            THEN /\ Throw("startUnit REBOOT_GUARD_ENABLE failed")
                 /\ Log1("startUnit", "fw", "REBOOT_GUARD_ENABLE", "throw")
                 /\ UNCHANGED << fw, hw >>
            ELSE /\ Goto("lock_upd", 1, ctx)
                 /\ Log1("startUnit", "fw", "REBOOT_GUARD_ENABLE", "ok")
                 /\ fw' = [fw EXCEPT !.locked = TRUE]
                 /\ hw' = [hw EXCEPT !.guard = TRUE]
    /\ UNCHANGED << frame, cfg, opt, pkg, updaters, bios, ret >>

\* FwUpdIFace::lock(): the default, which OBMCPhosphorImageUpdater and the
\* first IntelPlatformsUpdater keep.
FwUpdIFace_lock ==
    /\ pc = "lock_upd"
    /\ \/ updaters[LockAt(i)].kind = "OBMC"
       \/ updaters[LockAt(i)].kind = "INTEL" /\ cfg.rev = "base1"
    /\ Log1("lock", updaters[LockAt(i)].kind, "", "ok")
    /\ LockNext
    /\ UNCHANGED << frame, cfg, opt, pkg, fw, updaters, bios, hw, ret >>

\* Faulty variant of the sequence below: HIOMAPD is suspended first and
\* the chassis is looked at afterwards.
Mut_lock_run(chassisOn, active, suspend) ==
    IF ~active
    THEN [evs |-> << Ev("DaemonState", "PNOR", "", "suspended") >>,
          msg |-> "HIOMAPD already suspended",
          suspended |-> FALSE, locked |-> FALSE]
    ELSE IF ~suspend
    THEN [evs |-> << Ev("DaemonState", "PNOR", "", "active"),
                     Ev("Suspend", "PNOR", "", "throw") >>,
          msg |-> "Suspend failed",
          suspended |-> FALSE, locked |-> FALSE]
    ELSE IF chassisOn
    THEN [evs |-> << Ev("DaemonState", "PNOR", "", "active"),
                     Ev("Suspend", "PNOR", "", "ok"),
                     Ev("isChassisOn", "PNOR", "", "true") >>,
          msg |-> "The host is running now, operation cancelled",
          suspended |-> TRUE, locked |-> FALSE]
    ELSE [evs |-> << Ev("DaemonState", "PNOR", "", "active"),
                     Ev("Suspend", "PNOR", "", "ok"),
                     Ev("isChassisOn", "PNOR", "", "false") >>,
          msg |-> "none",
          suspended |-> TRUE, locked |-> TRUE]

\* OpenPowerUpdater::lock(): the chassis must be off and HIOMAPD active
\* (DaemonState 0; another client may have suspended it); then HIOMAPD is
\* suspended and `locked` is set. Yields the external operations done, the
\* message of the exception thrown ("none": returns), and whether HIOMAPD
\* was suspended and `locked` set.
OpenPowerUpdater_lock_run(chassisOn, active, suspend) ==
    IF chassisOn
    THEN [evs |-> << Ev("isChassisOn", "PNOR", "", "true") >>,
          msg |-> "The host is running now, operation cancelled",
          suspended |-> FALSE, locked |-> FALSE]
    ELSE IF ~active
    THEN [evs |-> << Ev("isChassisOn", "PNOR", "", "false"),
                     Ev("DaemonState", "PNOR", "", "suspended") >>,
          msg |-> "HIOMAPD already suspended",
          suspended |-> FALSE, locked |-> FALSE]
    ELSE IF ~suspend
    THEN [evs |-> << Ev("isChassisOn", "PNOR", "", "false"),
                     Ev("DaemonState", "PNOR", "", "active"),
                     Ev("Suspend", "PNOR", "", "throw") >>,
          msg |-> "Suspend failed",
          suspended |-> FALSE, locked |-> FALSE]
    ELSE [evs |-> << Ev("isChassisOn", "PNOR", "", "false"),
                     Ev("DaemonState", "PNOR", "", "active"),
                     Ev("Suspend", "PNOR", "", "ok") >>,
          msg |-> "none",
          suspended |-> TRUE, locked |-> TRUE]

OpenPowerUpdater_lock ==
    /\ pc = "lock_upd"
    /\ updaters[LockAt(i)].kind = "PNOR"
    /\ \E chassisOn \in BOOLEAN, active \in BOOLEAN, suspend \in BOOLEAN :
        LET r == OpenPowerUpdater_lock_run(chassisOn, active, suspend)
        IN /\ Log(<< Ev("lock", "PNOR", "",
                        IF r.msg = "none" THEN "ok" ELSE "throw") >> \o r.evs)
           /\ SetLocked(LockAt(i), r.locked)
           /\ hw' = [hw EXCEPT !.daemonState = IF r.suspended THEN 1 ELSE @]
           /\ IF r.msg = "none" THEN LockNext ELSE Throw(r.msg)
    /\ UNCHANGED << frame, cfg, opt, pkg, fw, bios, ret >>

\* IntelPlatformsUpdater::lock() of the second revision: throws when the
\* chassis is on.
IntelPlatformsUpdater_lock ==
    /\ pc = "lock_upd"
    /\ updaters[LockAt(i)].kind = "INTEL"
    /\ cfg.rev # "base1"
    /\ \E chassisOn \in BOOLEAN :
        IF chassisOn
        THEN /\ Throw("The host is running now, operation cancelled!")
             /\ Log(<< Ev("lock", "INTEL", "", "throw"),
                       Ev("isChassisOn", "INTEL", "", "true") >>)
        ELSE /\ LockNext
             /\ Log(<< Ev("lock", "INTEL", "", "ok"),
                       Ev("isChassisOn", "INTEL", "", "false") >>)
    /\ UNCHANGED << frame, cfg, opt, pkg, fw, updaters, bios, hw, ret >>

\* ------------------------------------------------- BIOS hardware sequencer
\* One step of BIOSUpdater::lock()/unlock(): the helper called and its
\* argument.
Op(op, arg) == [op |-> op, arg |-> arg]

\* The state the steps work on: the updater's GPIO lines and I2C descriptor,
\* the SPI driver and the OEPol bit of the expander, and the `locked` flag.
BiosSt(b, h, l) == [bios |-> b, hw |-> h, locked |-> l]

GpioField(name) ==
    CASE name = "PCH"     -> "gpioPCHPower"
      [] name = "BIOSSel" -> "gpioBIOSSel"
      [] name = "Active"  -> "gpioActiveFlashSel"

\* isSPIDriverBound(): the driver's sysfs link exists.
isSPIDriverBound(st) == st.hw.spiBound

\* Whether the step touches the hardware in a way that may throw:
\* bindSPIDriver/unbindSPIDriver act only when the state differs,
\* releaseGPIO only on a line that is held.
Failable(st, op) ==
    CASE op.op = "isChassisOn"     -> TRUE
      [] op.op = "setGPIOOutput"   -> TRUE
      [] op.op = "openI2CDevice"   -> TRUE
      [] op.op = "unbindSPIDriver" -> isSPIDriverBound(st)
      [] op.op = "bindSPIDriver"   -> ~isSPIDriverBound(st)
      [] op.op = "releaseGPIO"     -> st.bios[GpioField(op.arg)] # "null"
      [] OTHER                     -> FALSE

\* Whether the step performs any external operation at all.
Effective(st, op) ==
    CASE op.op = "setOEPol"   -> TRUE
      [] op.op = "clearOEPol" -> st.bios.pca9698FD
      [] OTHER                -> Failable(st, op)

\* The state after the step has succeeded. `inputBit` is the PCH power bit
\* read from the input register of the expander.
ApplyOp(st, op, inputBit) ==
    CASE op.op = "isChassisOn" -> st
      [] op.op = "setGPIOOutput" ->
            [st EXCEPT !.bios[GpioField(op.arg)] = "held"]
      [] op.op = "releaseGPIO" ->
            [st EXCEPT !.bios[GpioField(op.arg)] = "null"]
      [] op.op = "openI2CDevice" ->
            [st EXCEPT !.bios.pca9698FD = TRUE]
      [] op.op = "setOEPol" ->
            IF inputBit THEN [st EXCEPT !.hw.oepol = TRUE]
            ELSE [st EXCEPT !.bios.pca9698FD = FALSE]
      [] op.op = "clearOEPol" ->
            IF st.bios.pca9698FD
            THEN [st EXCEPT !.hw.oepol = FALSE, !.bios.pca9698FD = FALSE]
            ELSE st
      [] op.op = "unbindSPIDriver" -> [st EXCEPT !.hw.spiBound = FALSE]
      [] op.op = "bindSPIDriver"   -> [st EXCEPT !.hw.spiBound = TRUE]
      [] op.op = "locked=true"     -> [st EXCEPT !.locked = TRUE]
      [] op.op = "locked=false"    -> [st EXCEPT !.locked = FALSE]

\* The result an operation is logged with; isChassisOn throws exactly when
\* the chassis is on.
OpResult(op, throws) ==
    IF op.op = "isChassisOn" THEN (IF throws THEN "true" ELSE "false")
    ELSE (IF throws THEN "throw" ELSE "ok")

\* Runs the steps in order; step number `fail` throws (0: none does).
\* Yields the state reached, the external operations performed, and whether
\* the failing step was one that can throw.
RECURSIVE RunOps(_, _, _, _)
RunOps(st, ops, fail, inputBit) ==
    IF ops = << >> THEN [st |-> st, evs |-> << >>, failed |-> FALSE]
    ELSE LET op == Head(ops)
         IN IF fail = 1
            THEN [st |-> st,
                  evs |-> << Ev(op.op, "BIOS", op.arg, OpResult(op, TRUE)) >>,
                  failed |-> Failable(st, op)]
            ELSE LET rest == RunOps(ApplyOp(st, op, inputBit), Tail(ops),
                                    IF fail = 0 THEN 0 ELSE fail - 1,
                                    inputBit)
                 IN [st |-> rest.st,
                     evs |-> (IF Effective(st, op)
                              THEN << Ev(op.op, "BIOS", op.arg,
                                         OpResult(op, FALSE)) >>
                              ELSE << >>) \o rest.evs,
                     failed |-> rest.failed]

\* Faulty variant of the sequence below: the PCH is shut down before the
\* chassis is looked at.
Mut_BIOSLockOps ==
    << Op("setGPIOOutput", "PCH"), Op("isChassisOn", ""),
       Op("locked=true", ""), Op("unbindSPIDriver", ""),
       Op("setGPIOOutput", "BIOSSel"), Op("bindSPIDriver", "") >>

\* BIOSUpdater::lock() with files: the chassis check, "Shutting down PCH",
\* then "Get access to BIOS flash".
BIOSLockOps ==
    << Op("isChassisOn", ""), Op("setGPIOOutput", "PCH") >>
    \o (IF cfg.pca THEN << Op("openI2CDevice", ""), Op("setOEPol", "") >>
        ELSE << >>)
    \o << Op("locked=true", ""), Op("unbindSPIDriver", ""),
          Op("setGPIOOutput", "BIOSSel") >>
    \o (IF cfg.golden THEN << Op("setGPIOOutput", "Active") >> ELSE << >>)
    \o << Op("bindSPIDriver", "") >>

\* Faulty variant of the sequence below: the PCH power is restored before
\* the flash is returned to the host.
Mut_BIOSUnlockOps ==
    << Op("unbindSPIDriver", ""), Op("releaseGPIO", "PCH") >>
    \o (IF cfg.golden THEN << Op("releaseGPIO", "Active") >> ELSE << >>)
    \o << Op("releaseGPIO", "BIOSSel") >>
    \o (IF cfg.pca THEN << Op("clearOEPol", "") >> ELSE << >>)
    \o << Op("locked=false", "") >>

\* BIOSUpdater::unlock() when locked: "Return back BIOS flash control to
\* host", then "Restoring PCH power".
BIOSUnlockOps ==
    << Op("unbindSPIDriver", "") >>
    \o (IF cfg.golden THEN << Op("releaseGPIO", "Active") >> ELSE << >>)
    \o << Op("releaseGPIO", "BIOSSel"), Op("releaseGPIO", "PCH") >>
    \o (IF cfg.pca THEN << Op("clearOEPol", "") >> ELSE << >>)
    \o << Op("locked=false", "") >>

SetBios(k, st) ==
    /\ bios' = st.bios
    /\ hw' = st.hw
    /\ SetLocked(k, st.locked)

\* Position of the chassis check among the steps of BIOSUpdater::lock().
ChassisCheckAt == CHOOSE k \in 1..Len(BIOSLockOps) :
                     BIOSLockOps[k].op = "isChassisOn"

\* BIOSUpdater::lock(): nothing without files; with files the chassis must
\* be off, then the PCH is shut down and the BMC takes the BIOS flash.
BIOSUpdater_lock ==
    /\ pc = "lock_upd"
    /\ updaters[LockAt(i)].kind = "BIOS"
    /\ IF updaters[LockAt(i)].files = << >>
       THEN /\ LockNext
            /\ Log1("lock", "BIOS", "", "ok")
            /\ UNCHANGED << updaters, bios, hw >>
       ELSE \E chassisOn \in BOOLEAN, inputBit \in BOOLEAN,
               fail \in 0..Len(BIOSLockOps) :
            LET r == RunOps(BiosSt(bios, hw, updaters[LockAt(i)].locked),
                            BIOSLockOps, fail, inputBit)
            IN /\ (fail = ChassisCheckAt) => chassisOn
               /\ chassisOn => (fail # 0 /\ fail <= ChassisCheckAt)
               /\ (fail # 0) => r.failed
               /\ SetBios(LockAt(i), r.st)
               /\ Log(<< Ev("lock", "BIOS", "",
                            IF fail = 0 THEN "ok" ELSE "throw") >> \o r.evs)
               /\ IF fail = 0 THEN LockNext
                  ELSE IF fail = ChassisCheckAt
                  THEN Throw("The host is running now, operation cancelled!")
                  ELSE Throw("BIOS lock failed")
    /\ UNCHANGED << frame, cfg, opt, pkg, fw, ret >>

\* ---------------------------------------------------------------- install
\* A step of an install or reset: the entry into a hook, which cannot fail,
\* or an external operation (a tool, a file operation, a D-Bus call), whose
\* failure is an exception.
Hook(e, kind, a) ==
    [e |-> e, u |-> kind, a |-> a, failable |-> FALSE, r |-> "ok"]
Cmd(kind, a) ==
    [e |-> "cmd", u |-> kind, a |-> a, failable |-> TRUE, r |-> "ok"]

\* `throw FwupdateError(msg)` of a hook: a step that always fails.
Raise(kind, msg) ==
    [e |-> "raise", u |-> kind, a |-> msg, failable |-> TRUE, r |-> "throw"]

\* A tool run inside try { } catch (...) { }: it exits with status zero
\* ("ok") or not ("nonzero"), and neither is an exception of the caller.
Probe(kind, a, r) ==
    [e |-> "cmd", u |-> kind, a |-> a, failable |-> FALSE, r |-> r]

RECURSIVE Flatten(_)
Flatten(seqs) ==
    IF seqs = << >> THEN << >> ELSE Head(seqs) \o Flatten(Tail(seqs))

\* A test of the file system that is not an error either way: fs::exists.
Exists(kind, a, found) ==
    [e |-> "exists", u |-> kind, a |-> a, failable |-> FALSE,
     r |-> IF found THEN "true" ELSE "false"]

\* Faulty variant of OpenPowerUpdater_doBeforeInstall: the NVRAM is read
\* whether or not a reset is asked.
Mut_OpenPower_doBeforeInstall(files, reset, dump) ==
    << Hook("doBeforeInstall", "PNOR", "") >>
    \o (IF files # << >>
        THEN << Cmd("PNOR", "pflash -P NVRAM -r"),
                Exists("PNOR", "NVRAM", dump) >>
        ELSE << >>)

\* OpenPowerUpdater: the NVRAM partition is read before the write when
\* there are files and no reset is asked, and written back after it when
\* the dump file exists.
OpenPowerUpdater_doBeforeInstall(files, reset, dump) ==
    << Hook("doBeforeInstall", "PNOR", "") >>
    \o (IF files # << >> /\ ~reset
        THEN << Cmd("PNOR", "pflash -P NVRAM -r"),
                Exists("PNOR", "NVRAM", dump) >>
        ELSE << >>)

\* Faulty variant of OpenPowerUpdater_doInstall: the wait status of pflash
\* is dropped, so that a pflash that fails is not noticed.
Mut_OpenPower_doInstall(file) ==
    << Hook("doInstall", "PNOR", filename(file)),
       Probe("PNOR", "pflash -f -E -p", "nonzero") >>

OpenPowerUpdater_doInstall(file) ==
    << Hook("doInstall", "PNOR", filename(file)),
       Cmd("PNOR", "pflash -f -E -p") >>

OpenPowerUpdater_doAfterInstall(files, reset, dump) ==
    << Hook("doAfterInstall", "PNOR", "") >>
    \o (IF ~reset /\ files # << >>
        THEN << Exists("PNOR", "NVRAM", dump) >>
             \o (IF dump THEN << Cmd("PNOR", "pflash -f -e -P NVRAM -p") >>
                 ELSE << >>)
        ELSE << >>)

\* BIOSUpdater: without reset the NVRAM is dumped (the dump must exist)
\* before the write and restored after it.
BIOSUpdater_doBeforeInstall(reset) ==
    << Hook("doBeforeInstall", "BIOS", "") >>
    \o (IF ~reset
        THEN << Cmd("BIOS", "dd NVRAM"), Cmd("BIOS", "exists NVRAM dump") >>
        ELSE << >>)

\* A step on the SPI driver or on a GPIO line, logged as the steps of
\* lock() and unlock() are.
HwStep(op, arg) ==
    [e |-> op, u |-> "BIOS", a |-> arg, failable |-> TRUE, r |-> "ok"]

\* Faulty variant of GoldenFlashOps: the chip select is swapped while the
\* driver is still bound.
Mut_GoldenFlashOps(bound, held) ==
    << HwStep("set_value", "Active") >>
    \o (IF bound THEN << HwStep("unbindSPIDriver", "") >> ELSE << >>)
    \o << HwStep("bindSPIDriver", "") >>

\* "Switching to golden flash" of doInstall: unbindSPIDriver(), which acts
\* when the driver is bound; gpioActiveFlashSel.set_value(goldenFlashChip),
\* which throws on a line that was never requested; bindSPIDriver().
GoldenFlashOps(bound, held) ==
    (IF bound THEN << HwStep("unbindSPIDriver", "") >> ELSE << >>)
    \o (IF held THEN << HwStep("set_value", "Active") >>
        ELSE << Raise("BIOS", "object not holding a GPIO line handle") >>)
    \o << HwStep("bindSPIDriver", "") >>

\* doInstall: the switch to the golden flash when useGoldenFlash is set,
\* then flashcp.
BIOSUpdater_doInstall(file, golden, bound, held) ==
    << Hook("doInstall", "BIOS", filename(file)) >>
    \o (IF golden THEN GoldenFlashOps(bound, held) ELSE << >>)
    \o << Cmd("BIOS", "flashcp -v") >>

\* Whether the SPI driver is bound after the events: an unbind or a bind
\* that threw left it as it was.
SpiAfter(bound, evs) ==
    LET at == { k \in 1..Len(evs) :
                  evs[k].e \in { "unbindSPIDriver", "bindSPIDriver" } }
        last == CHOOSE k \in at : \A m \in at : m <= k
    IN IF at = { } THEN bound
       ELSE (evs[last].e = "bindSPIDriver") <=> (evs[last].r = "ok")

\* doAfterInstall resolves the link of the MTD device, restores the NVRAM
\* from the dump, which must still exist, unless a reset is asked, and
\* resets the version kept for bios_active.
BIOSUpdater_doAfterInstall(reset) ==
    << Hook("doAfterInstall", "BIOS", ""), Cmd("BIOS", "read_symlink mtd") >>
    \o (IF ~reset
        THEN << Cmd("BIOS", "find NVRAM dump"),
                Cmd("BIOS", "mtd-util cp NVRAM") >>
        ELSE << >>)
    \o << Cmd("BIOS", "updateDBusStoredVersion bios_active") >>

\* OBMCPhosphorImageUpdater: each file is copied to the flash directory; with
\* reset the whitelist is truncated after files were installed.
OBMCPhosphorImageUpdater_doInstall(file) ==
    << Hook("doInstall", "OBMC", filename(file)), Cmd("OBMC", "copy") >>

OBMCPhosphorImageUpdater_doAfterInstall(files, reset) ==
    << Hook("doAfterInstall", "OBMC", "") >>
    \o (IF files # << >> /\ reset
        THEN << Cmd("OBMC", "truncate whitelist") >> ELSE << >>)

\* What exec() returns for a tool that has printed `out`: fgets() keeps the
\* line ends and the lines are joined as they were read.
Stdout(kind, out) ==
    [e |-> "stdout", u |-> kind, a |-> out, failable |-> FALSE, r |-> "ok"]

\* The line fw_printenv prints for a variable of the U-Boot environment.
fw_printenv(name, value) == name \o "=" \o value \o "\n"

\* IMAGE_A_ADDR and IMAGE_B_ADDR as "%08x" prints them.
BootAddress(part) ==
    CASE part = "image_a" -> "20080000"
      [] part = "image_b" -> "22480000"

\* getBootPart() of image_intel.cpp for a BMC that runs from env.bootpart.
\* When the variable bootside is defined the side is image_b iff what
\* exec() returns equals "bootside=b", else image_a. When fw_printenv exits
\* with an error, which is expected where the variable is not defined, the
\* address of bootcmd tells the side, and a bootcmd that is not `bootm` of
\* one of the two addresses leaves it unknown.
getBootPart(env) ==
    LET side == IF env.bootpart = "image_b" THEN "b" ELSE "a"
        bootside == fw_printenv("bootside", side)
        bootcmd == fw_printenv("bootcmd",
                       IF env.bootcmd
                       THEN "bootm " \o BootAddress(env.bootpart)
                       ELSE "run bootcmd_initrd")
    IN IF env.bootside
       THEN [steps |-> << Probe("INTEL", "fw_printenv bootside", "ok"),
                          Stdout("INTEL", bootside) >>,
             part |-> IF bootside = "bootside=b" THEN "image_b"
                      ELSE "image_a"]
       ELSE [steps |-> << Probe("INTEL", "fw_printenv bootside", "nonzero"),
                          Cmd("INTEL", "fw_printenv bootcmd"),
                          Stdout("INTEL", bootcmd) >>,
             part |-> IF env.bootcmd THEN env.bootpart ELSE "unknown"]

\* setBootPart(part): bootside is set when the variable is defined and
\* fw_setenv succeeds, else the handler of the exception sets bootcmd.
setBootPart(env, part) ==
    LET side == IF part = "image_b" THEN "b" ELSE "a"
        fallback ==
            Cmd("INTEL", "fw_setenv bootcmd bootm " \o BootAddress(part))
    IN IF ~env.bootside
       THEN << Probe("INTEL", "fw_printenv -n bootside", "nonzero"),
               fallback >>
       ELSE IF ~env.setenv
       THEN << Probe("INTEL", "fw_printenv -n bootside", "ok"),
               Probe("INTEL", "fw_setenv bootside " \o side, "nonzero"),
               fallback >>
       ELSE << Probe("INTEL", "fw_printenv -n bootside", "ok"),
               Probe("INTEL", "fw_setenv bootside " \o side, "ok") >>

\* getBootAddress() and setBootAddress() of the first IntelPlatformsUpdater:
\* bootcmd only; address 0 stands for a bootcmd that is not `bootm`.
getBootAddress(env) ==
    [steps |-> << Cmd("INTEL", "fw_printenv bootcmd"),
                  Stdout("INTEL",
                         fw_printenv("bootcmd",
                             IF env.bootcmd
                             THEN "bootm " \o BootAddress(env.bootpart)
                             ELSE "run bootcmd_initrd")) >>,
     part |-> IF env.bootcmd THEN env.bootpart ELSE "unknown"]

setBootAddress(part) ==
    << Cmd("INTEL", "fw_setenv bootcmd bootm " \o BootAddress(part)) >>

\* The two ways to the boot side, by revision: the steps of the query, the
\* side it yields, and the steps that select a side.
IntelBoot(rev, env) ==
    LET query == IF rev = "base1" THEN getBootAddress(env)
                 ELSE getBootPart(env)
    IN [get |-> query.steps,
        part |-> query.part,
        set |-> [part \in { "image_a", "image_b" } |->
                   IF rev = "base1" THEN setBootAddress(part)
                   ELSE setBootPart(env, part)]]

\* IntelPlatformsUpdater::reset(): erases the writable partitions and keeps
\* booting from image B when that was the boot side.
IntelPlatformsUpdater_reset(boot) ==
    boot.get
    \o << Cmd("INTEL", "releaseFlashDrive"),
          Cmd("INTEL", "flash_erase rwfs"), Cmd("INTEL", "flash_erase sofs"),
          Cmd("INTEL", "flash_erase u-boot-env") >>
    \o (IF boot.part = "image_b" THEN boot.set["image_b"] ELSE << >>)

\* IntelPlatformsUpdater::doInstall: image-mtd goes to the whole flash,
\* image-runtime to the side that is not the one getBootPart() has
\* yielded, which becomes the boot side, image-u-boot to its partition
\* unless its size is zero.
IntelPlatformsUpdater_doInstall(file, zero, boot) ==
    << Hook("doInstall", "INTEL", filename(file)) >>
    \o (CASE filename(file) = "image-mtd" ->
                << Cmd("INTEL", "releaseFlashDrive"),
                   Cmd("INTEL", "flashcp /dev/mtd0") >>
          [] filename(file) = "image-runtime" ->
                boot.get
                \o (CASE boot.part = "image_a" ->
                            << Cmd("INTEL", "flashcp /dev/mtd/image-b") >>
                            \o boot.set["image_b"]
                      [] boot.part = "image_b" ->
                            << Cmd("INTEL", "flashcp /dev/mtd/image-a") >>
                            \o boot.set["image_a"]
                      [] OTHER ->
                            << Raise("INTEL",
                                     "Unable to determine boot address!") >>)
          [] filename(file) = "image-u-boot" ->
                IF zero THEN << >>
                ELSE << Cmd("INTEL", "flashcp /dev/mtd/u-boot") >>)

\* IntelPlatformsUpdater::doAfterInstall: a reset when asked, in both
\* revisions.
IntelPlatformsUpdater_doAfterInstall(reset, boot) ==
    << Hook("doAfterInstall", "INTEL", "") >>
    \o (IF reset THEN IntelPlatformsUpdater_reset(boot) ELSE << >>)

\* What the file system and the boot environment hold when a hook looks:
\* whether the NVRAM dump of pflash exists, the side the BMC runs from,
\* whether the variable bootside is defined and can be set, whether bootcmd
\* is `bootm` of the address of that side, and whether image-u-boot is an
\* empty file; and, for BIOSUpdater built with GOLDEN_FLASH_SUPPORT, the
\* flag useGoldenFlash and whether the SPI driver is bound when doInstall
\* looks. Only what an updater of the kind looks at varies: the dump
\* for OpenPowerUpdater, the boot environment for IntelPlatformsUpdater,
\* where bootcmd is read only when bootside is not defined and bootside is
\* set only when it is.
Envs(kind) ==
    { env \in [dump : BOOLEAN, bootpart : { "image_a", "image_b" },
               bootside : BOOLEAN, setenv : BOOLEAN, bootcmd : BOOLEAN,
               zero : BOOLEAN, golden : BOOLEAN, bound : BOOLEAN] :
        /\ env.golden => (kind = "BIOS" /\ cfg.golden)
        /\ env.bound = hw.spiBound
        /\ (kind # "PNOR") => env.dump
        /\ (kind # "INTEL")
              => /\ env.bootpart = "image_a" /\ env.bootside /\ env.zero
        /\ (kind # "INTEL" \/ env.bootside) => env.bootcmd
        /\ (kind # "INTEL" \/ ~env.bootside) => env.setenv }

doBeforeInstall(u, reset, env) ==
    CASE u.kind = "PNOR" ->
            OpenPowerUpdater_doBeforeInstall(u.files, reset, env.dump)
      [] u.kind = "BIOS" -> BIOSUpdater_doBeforeInstall(reset)
      [] OTHER           -> << Hook("doBeforeInstall", u.kind, "") >>

doInstall(u, file, env) ==
    CASE u.kind = "PNOR"  -> OpenPowerUpdater_doInstall(file)
      [] u.kind = "BIOS"  ->
            BIOSUpdater_doInstall(file, env.golden, env.bound,
                                  bios.gpioActiveFlashSel = "held")
      [] u.kind = "OBMC"  -> OBMCPhosphorImageUpdater_doInstall(file)
      [] u.kind = "INTEL" ->
            IntelPlatformsUpdater_doInstall(file, env.zero,
                                            IntelBoot(cfg.rev, env))

doAfterInstall(u, reset, env) ==
    CASE u.kind = "PNOR"  ->
            OpenPowerUpdater_doAfterInstall(u.files, reset, env.dump)
      [] u.kind = "BIOS"  -> BIOSUpdater_doAfterInstall(reset)
      [] u.kind = "OBMC"  ->
            OBMCPhosphorImageUpdater_doAfterInstall(u.files, reset)
      [] u.kind = "INTEL" ->
            IntelPlatformsUpdater_doAfterInstall(reset,
                                                 IntelBoot(cfg.rev, env))

\* The value doAfterInstall returns: whether a reboot is needed.
IntelPlatformsUpdater_doAfterInstall_ret(files) == files # << >>
IntelPlatformsUpdater_doAfterInstall_ret_base1(files) == TRUE
doAfterInstall_ret(rev, u) ==
    CASE u.kind = "PNOR"  -> FALSE
      [] u.kind = "BIOS"  -> FALSE
      [] u.kind = "OBMC"  -> u.files # << >>
      [] u.kind = "INTEL" ->
            IF rev = "base1"
            THEN IntelPlatformsUpdater_doAfterInstall_ret_base1(u.files)
            ELSE IntelPlatformsUpdater_doAfterInstall_ret(u.files)

\* Faulty variant of FwUpdBase_install_skips: the hooks run for an updater
\* without files as well.
Mut_install_skips(files) == FALSE

\* FwUpdBase::install of unnamed/part_029 returns false at once when the
\* updater has no files; that of src/src/fwupdbase.cpp has no such test.
FwUpdBase_install_skips(files) == files = << >>
FwUpdBase_install_skips_base1(files) == FALSE
installSkips(rev, files) ==
    IF rev = "base1" THEN FwUpdBase_install_skips_base1(files)
    ELSE FwUpdBase_install_skips(files)

\* What doInstall of the k-th file finds: the golden switch of an earlier
\* file has bound the SPI driver again.
FileEnv(env, k) == [env EXCEPT !.bound = @ \/ (env.golden /\ k > 1)]

\* Faulty variant of InstallSteps: doAfterInstall is entered before the
\* files are written.
Mut_InstallSteps(u, reset, env) ==
    doBeforeInstall(u, reset, env)
    \o doAfterInstall(u, reset, env)
    \o Flatten([k \in 1..Len(u.files) |->
                   doInstall(u, u.files[k], FileEnv(env, k))])

\* The steps of FwUpdBase::install(reset) when it does not return at once.
InstallSteps(u, reset, env) ==
    doBeforeInstall(u, reset, env)
    \o Flatten([k \in 1..Len(u.files) |->
                   doInstall(u, u.files[k], FileEnv(env, k))])
    \o doAfterInstall(u, reset, env)

\* The events of the steps up to step `fail`, which throws (0: none does).
StepEvents(steps, fail) ==
    [k \in 1..(IF fail = 0 THEN Len(steps) ELSE fail) |->
        Ev(steps[k].e, steps[k].u, steps[k].a,
           IF k = fail THEN "throw" ELSE steps[k].r)]

\* Faulty variant of FwUpdate_install_ret: a reboot is required only when
\* every updater so far asked for one.
Mut_install_ret(acc, r) == acc /\ r

\* The body of the loop of FwUpdate::install: `ret` becomes true when an
\* updater's install returned true and is never lowered.
FwUpdate_install_ret(acc, r) == IF r THEN TRUE ELSE acc

\* FwUpdBase::install(reset) of updater i, and the loop step of
\* FwUpdate::install() around it, which ORs the results.
FwUpdBase_install ==
    /\ pc = "install"
    /\ LET u == updaters[i]
           next == IF i < Len(updaters) THEN Goto("install", i + 1, ctx)
                   ELSE Goto("unlock", 1, ctx)
       IN IF installSkips(cfg.rev, u.files)
          THEN /\ next
               /\ Log1("install", u.kind, "", "false")
               /\ UNCHANGED << ret, hw >>
          ELSE \E env \in Envs(u.kind) :
               LET steps == InstallSteps(u, opt.reset, env)
               IN \E fail \in 0..Len(steps) :
                    /\ (fail # 0) => steps[fail].failable
                    /\ \A k \in 1..Len(steps) :
                         steps[k].e = "raise" => (fail # 0 /\ fail <= k)
                    /\ hw' = [hw EXCEPT !.spiBound =
                                 SpiAfter(@, StepEvents(steps, fail))]
                    /\ IF fail # 0
                       THEN /\ Throw("install failed")
                            /\ Log(<< Ev("install", u.kind, "", "throw") >>
                                   \o StepEvents(steps, fail))
                            /\ UNCHANGED ret
                       ELSE /\ next
                            /\ Log(<< Ev("install", u.kind, "",
                                        IF doAfterInstall_ret(cfg.rev, u)
                                        THEN "true" ELSE "false") >>
                                   \o StepEvents(steps, 0))
                            /\ ret' = FwUpdate_install_ret(
                                        ret, doAfterInstall_ret(cfg.rev, u))
    /\ UNCHANGED << frame, cfg, opt, pkg, fw, updaters, bios >>

\* ------------------------------------------------------------------ reset
\* OpenPowerUpdater::reset(): lists the partitions and clears those found.
OpenPowerUpdater_reset(parts) ==
    << Cmd("PNOR", "pflash -i") >>
    \o (IF parts THEN << Cmd("PNOR", "pflash -P clear") >> ELSE << >>)

\* OBMCPhosphorImageUpdater::reset(): starts the factory reset unit.
OBMCPhosphorImageUpdater_reset ==
    << Cmd("OBMC", "startUnit SERVICE_FACTORY_RESET") >>

\* BIOSUpdater::reset(): not supported, does nothing.
BIOSUpdater_reset == << >>

ResetSteps(u, env) ==
    CASE u.kind = "PNOR"  -> OpenPowerUpdater_reset(env.dump)
      [] u.kind = "BIOS"  -> BIOSUpdater_reset
      [] u.kind = "OBMC"  -> OBMCPhosphorImageUpdater_reset
      [] u.kind = "INTEL" ->
            IntelPlatformsUpdater_reset(IntelBoot(cfg.rev, env))

\* updater->reset() of updater i, and the loop step of FwUpdate::reset()
\* around it.
FwUpdIFace_reset ==
    /\ pc = "reset"
    /\ LET u == updaters[i]
       IN \E env \in Envs(u.kind) :
           LET steps == ResetSteps(u, env)
           IN \E fail \in 0..Len(steps) :
                /\ (fail # 0) => steps[fail].failable
                /\ IF fail # 0
                   THEN /\ Throw("reset failed")
                        /\ Log(<< Ev("reset", u.kind, "", "throw") >>
                               \o StepEvents(steps, fail))
                   ELSE /\ IF i < Len(updaters)
                           THEN Goto("reset", i + 1, ctx)
                           ELSE Goto("unlock", 1, ctx)
                        /\ Log(<< Ev("reset", u.kind, "", "ok") >>
                               \o StepEvents(steps, 0))
    /\ UNCHANGED << frame, cfg, opt, pkg, fw, updaters, bios, hw, ret >>

\* ----------------------------------------------------------------- unlock
\* The loop of FwUpdate::unlock() goes from the first updater to the last;
\* the reboot guard comes after the loop.
UnlockNext == Goto("unlock", i + 1, ctx)

\* FwUpdIFace::unlock(): the default, which OBMCPhosphorImageUpdater and
\* IntelPlatformsUpdater keep.
FwUpdIFace_unlock ==
    /\ pc = "unlock"
    /\ i <= Len(updaters)
    /\ updaters[i].kind \in { "OBMC", "INTEL" }
    /\ Log1("unlock", updaters[i].kind, "", "ok")
    /\ UnlockNext
    /\ UNCHANGED << frame, cfg, opt, pkg, fw, updaters, bios, hw, ret >>

\* Faulty variant of the test below: unlock() without `if (locked)`.
Mut_unlock_runs(u) == TRUE

\* `if (locked)` of OpenPowerUpdater::unlock() and of BIOSUpdater::unlock():
\* the body runs only when the updater's lock() had set `locked`.
OpenPowerUpdater_unlock_runs(u) == u.locked
BIOSUpdater_unlock_runs(u) == u.locked

\* OpenPowerUpdater::unlock(): resumes HIOMAPD when this updater had
\* suspended it.
OpenPowerUpdater_unlock ==
    /\ pc = "unlock"
    /\ i <= Len(updaters)
    /\ updaters[i].kind = "PNOR"
    /\ IF ~OpenPowerUpdater_unlock_runs(updaters[i])
       THEN /\ UnlockNext
            /\ Log1("unlock", "PNOR", "", "ok")
            /\ UNCHANGED << updaters, hw >>
       ELSE \E resume \in BOOLEAN :
            IF ~resume
            THEN /\ Throw("Resume failed")
                 /\ Log(<< Ev("unlock", "PNOR", "", "throw"),
                           Ev("Resume", "PNOR", "", "throw") >>)
                 /\ UNCHANGED << updaters, hw >>
            ELSE /\ UnlockNext
                 /\ Log(<< Ev("unlock", "PNOR", "", "ok"),
                           Ev("Resume", "PNOR", "", "ok") >>)
                 /\ SetLocked(i, FALSE)
                 /\ hw' = [hw EXCEPT !.daemonState = 0]
    /\ UNCHANGED << frame, cfg, opt, pkg, fw, bios, ret >>

\* BIOSUpdater::unlock(): when locked, returns the flash to the host and
\* restores the PCH power; `locked` is cleared at the very end.
BIOSUpdater_unlock ==
    /\ pc = "unlock"
    /\ i <= Len(updaters)
    /\ updaters[i].kind = "BIOS"
    /\ IF ~BIOSUpdater_unlock_runs(updaters[i])
       THEN /\ UnlockNext
            /\ Log1("unlock", "BIOS", "", "ok")
            /\ UNCHANGED << updaters, bios, hw >>
       ELSE \E fail \in 0..Len(BIOSUnlockOps) :
            LET r == RunOps(BiosSt(bios, hw, updaters[i].locked),
                            BIOSUnlockOps, fail,
                            FALSE)
            IN /\ (fail # 0) => r.failed
               /\ SetBios(i, r.st)
               /\ Log(<< Ev("unlock", "BIOS", "",
                            IF fail = 0 THEN "ok" ELSE "throw") >> \o r.evs)
               /\ IF fail = 0 THEN UnlockNext
                  ELSE Throw("BIOS unlock failed")
    /\ UNCHANGED << frame, cfg, opt, pkg, fw, ret >>

\* The end of FwUpdate::unlock(): the reboot guard is stopped when
\* FwUpdate::lock() had started it; "unlocked" marks the return.
FwUpdate_unlock ==
    /\ pc = "unlock"
    /\ i = Len(updaters) + 1
    /\ IF ~fw.locked
       THEN /\ UnlockDone
            /\ Log1("unlocked", "fw", "", "")
            /\ UNCHANGED << fw, hw >>
       ELSE \E started \in BOOLEAN :
            IF ~started
            THEN /\ Throw("startUnit REBOOT_GUARD_DISABLE failed")
                 /\ Log1("startUnit", "fw", "REBOOT_GUARD_DISABLE", "throw")
                 /\ UNCHANGED << fw, hw >>
            ELSE /\ UnlockDone
                 /\ Log(<< Ev("startUnit", "fw", "REBOOT_GUARD_DISABLE", "ok"),
                           Ev("unlocked", "fw", "", "") >>)
                 /\ fw' = [fw EXCEPT !.locked = FALSE]
                 /\ hw' = [hw EXCEPT !.guard = FALSE]
    /\ UNCHANGED << frame, cfg, opt, pkg, updaters, bios, ret >>

\* ------------------------------------------------------- reboot and exit
\* The end of flash_firmware() and of reset_firmware(): reboot(interactive),
\* after an install only when it returned true. reboot() throws unless the
\* user confirms and /sbin/reboot succeeds.
reboot ==
    /\ pc = "tail"
    /\ IF ctx = "install" /\ ~ret
       THEN /\ ScopeExit
            /\ UNCHANGED trace
       ELSE \E yes \in BOOLEAN, ok \in BOOLEAN :
            IF ~opt.interactive
            THEN /\ Throw("The BMC needs to be manually rebooted.")
                 /\ Log1("reboot", "main", "", "manual")
            ELSE IF ~yes
            THEN /\ Throw("The BMC needs to be manually rebooted.")
                 /\ Log(<< Ev("confirm", "main", "reboot", "false"),
                           Ev("reboot", "main", "", "manual") >>)
            ELSE IF ~ok
            THEN /\ Throw("The BMC needs to be manually rebooted.")
                 /\ Log(<< Ev("confirm", "main", "reboot", "true"),
                           Ev("cmd", "main", "/sbin/reboot", "throw"),
                           Ev("reboot", "main", "", "manual") >>)
            ELSE /\ ScopeExit
                 /\ Log(<< Ev("confirm", "main", "reboot", "true"),
                           Ev("cmd", "main", "/sbin/reboot", "ok"),
                           Ev("reboot", "main", "", "ok") >>)
    /\ UNCHANGED << frame, cfg, opt, pkg, fw, updaters, bios, hw, ret >>

\* FwUpdate::~FwUpdate() after its unlock(): the updaters are destroyed and
\* the temporary directory is removed.
FwUpdate_dtor ==
    /\ pc = "dtor"
    /\ fw' = [fw EXCEPT !.alive = FALSE, !.tmpdir = FALSE]
    /\ updaters' = << >>
    /\ pc' = "exit"
    /\ i' = 0
    /\ ctx' = "none"
    /\ Log1("remove_all", "fw", "tmpdir", "ok")
    /\ UNCHANGED << frame, cfg, opt, pkg, bios, hw, exc, ret, exitCode >>

EXIT_SUCCESS == 0
EXIT_FAILURE == 1

\* main(): an exception that reaches it is printed and the exit code is
\* EXIT_FAILURE.
main_exit ==
    /\ pc = "exit"
    /\ pc' = "done"
    /\ exitCode' = IF exc = "none" THEN EXIT_SUCCESS ELSE EXIT_FAILURE
    /\ UNCHANGED << frame, cfg, opt, pkg, fw, updaters, bios, hw, i, ctx, exc,
                    ret, trace >>

Next ==
    \/ Main
    \/ FwUpdate_ctor
    \/ FwUpdate_unpack
    \/ FwUpdate_verify
    \/ FwUpdBase_verify
    \/ FwUpdate_lock
    \/ FwUpdIFace_lock
    \/ OpenPowerUpdater_lock
    \/ IntelPlatformsUpdater_lock
    \/ BIOSUpdater_lock
    \/ FwUpdBase_install
    \/ FwUpdIFace_reset
    \/ FwUpdIFace_unlock
    \/ OpenPowerUpdater_unlock
    \/ BIOSUpdater_unlock
    \/ FwUpdate_unlock
    \/ reboot
    \/ FwUpdate_dtor
    \/ main_exit

Spec == Init /\ [][Next]_vars

\* The same program over the earlier revision of FwUpdBase and of
\* IntelPlatformsUpdater as well.
InitRevs == InitWith(HeadBuilds \cup EarlierBuilds)
SpecRevs == InitRevs /\ [][Next]_vars

\* ---------------------------------------------------- the machine names
\* The same program where the machine name of the BMC and the MachineName
\* of the MANIFEST vary, over packages of at most one payload file.
MachineNames == { "", "vegman", "nicole" }

SingleBundles == { b \in Bundles : Len(b) <= Len(<< "payload" >>) }

InitMachine ==
    InitOver(HeadBuilds \cup EarlierBuilds, Options,
             PackagesOf(SingleBundles, MachineNames), MachineNames,
             { GoodStore })

SpecMachine == InitMachine /\ [][Next]_vars

\* ------------------------------------------------------- the trust store
\* The same program where the trust store varies: it cannot be listed, or
\* holds up to MaxStore entries; for a plain flash (signatures checked, no
\* reset, no force, no confirmation) and for --reset.
MaxStore == 2

TrustEntries ==
    { TrustEntry(m, k) : m \in SigStates \ { "missing" },
                         k \in SigStates \ { "missing" } }

TrustStores ==
    { TrustStore(FALSE, << >>) }
    \cup { TrustStore(TRUE, s) : s \in SeqsOver(TrustEntries, MaxStore) }

PlainOptions ==
    { o \in Options :
        ~o.reset /\ ~o.skip_sign_check /\ ~o.force /\ ~o.interactive }

InitTrust ==
    InitOver(HeadBuilds \cup EarlierBuilds, PlainOptions,
             PackagesOf(SingleBundles, { ThisMachine }), { ThisMachine },
             TrustStores)

SpecTrust == InitTrust /\ [][Next]_vars

\* -------------------------------------------------------- the file names
\* A file name as the list of its parts between dots.
RECURSIVE JoinDots(_)
JoinDots(parts) ==
    IF Len(parts) = 1 THEN Head(parts)
    ELSE Head(parts) \o "." \o JoinDots(Tail(parts))

\* fs::path::stem() and fs::path::extension() of a file name: the extension
\* starts at the last dot, unless that dot is the first character.
PathOf(parts) ==
    LET n == Len(parts)
    IN IF n = 1 \/ (n = 2 /\ parts[1] = "")
       THEN Path(JoinDots(parts), "")
       ELSE Path(JoinDots(SubSeq(parts, 1, n - 1)), "." \o parts[n])

FileNames ==
    { << "image-bmc" >>, << "image-kernel" >>, << "image-rofs" >>,
      << "image-rwfs" >>, << "image-u-boot" >>, << "image-mtd" >>,
      << "image-runtime" >>, << "foo", "pnor" >>, << "vegman", "bin" >>,
      << "vegman", "img" >>, << "vegman-1", "2", "bin" >>,
      << "vegman", "pnor" >>, << "vegman", "bin", "sig" >>,
      << "image-bmc", "pnor" >>, << "image-bmc", "sig" >>,
      << "", "pnor" >>, << "MANIFEST" >> }

\* The same program over archives of one of these files, for a plain flash
\* and for --reset.
NamedBundles == { << PathOf(n) >> : n \in FileNames }

InitNames ==
    InitOver(HeadBuilds \cup EarlierBuilds, PlainOptions,
             PackagesOf(NamedBundles, { ThisMachine }), { ThisMachine },
             { GoodStore })

SpecNames == InitNames /\ [][Next]_vars

\* ================================================================ NvmX722
\* The constants of class NvmX722.
maxMac == 4
nvmOffset == 10706944
nvmSize == 6004736
controlWord == 0
bankValid == 585
bankSize == 65536
magicOffset1 == 72
magicOffset2 == 24
macHeaderSize == 1
checksumOffset == 63
checksumBase == 47802
vpdOffset == 47
vpdSize == 1024
pcieAltSize == 1024

\* Arithmetic in word_t (uint16_t) wraps.
Word(x) == x % 65536

\* The file is kept as the 16-bit words at its even byte offsets; a place
\* that is not listed holds zero. Rd and Wr are the access through the
\* pointer wordPtr() returns.
Rd(words, ptr) == IF ptr \in DOMAIN words THEN words[ptr] ELSE 0

Wr(words, ptr, v) ==
    [b \in DOMAIN words \cup { ptr } |-> IF b = ptr THEN v ELSE words[b]]

\* NvmX722::wordPtr(offset, maxSize): the byte offset in the file of the
\* word at `offset` of the bank, -1 for the exception "Invalid 10GBE NVM"
\* when maxSize bytes from there do not fit the file.
wordPtr(nvm, offset, maxSize) ==
    LET byteOffset == nvm.start + offset * 2
    IN IF byteOffset + maxSize > nvm.size THEN -1 ELSE byteOffset

\* NvmX722::readWord(offset), -1 when wordPtr() throws.
readWord(nvm, offset) ==
    LET ptr == wordPtr(nvm, offset, 2)
    IN IF ptr = -1 THEN -1 ELSE Rd(nvm.words, ptr)

\* NvmX722::NvmX722(file) once the file is mapped: the size test, the start
\* of the region and the search for the valid bank. `what` is the message
\* of the exception, "" when the object is constructed.
NvmX722(file) ==
    LET a == [size |-> file.size, words |-> file.words,
              start |-> IF file.size = nvmSize THEN 0 ELSE nvmOffset]
        b == [a EXCEPT !.start = a.start + bankSize]
        Ok(nvm) == [what |-> "", nvm |-> nvm]
        Fail(what) == [what |-> what, nvm |-> a]
    IN IF file.size < nvmSize
       THEN Fail("The image file is too small to contain a 10GBE region")
       ELSE IF readWord(a, controlWord) = -1 THEN Fail("Invalid 10GBE NVM")
       ELSE IF readWord(a, controlWord) = bankValid THEN Ok(a)
       ELSE IF readWord(b, controlWord) = -1 THEN Fail("Invalid 10GBE NVM")
       ELSE IF readWord(b, controlWord) = bankValid THEN Ok(b)
       ELSE Fail("No valid bank in 10GBE")

\* "get offset for MAC settings" and the offsets the loops of getMac() and
\* setMac() step through: the pointers read, the word offset of each MAC
\* address (one header word before each, three words each), and the pointer
\* wordPtr() gives for it.
macTable(nvm) ==
    LET p1 == readWord(nvm, magicOffset1)
        offset1 == Word(p1 + magicOffset2)
        p2 == readWord(nvm, offset1)
        offset2 == Word(offset1 + p2)
        at == [k \in 1..maxMac |->
                 Word(offset2 + (k - 1) * (macHeaderSize + 3) + macHeaderSize)]
    IN [ok |-> p1 # -1 /\ p2 # -1,
        read |-> { << wordPtr(nvm, magicOffset1, 2), 2 >> }
                 \cup (IF p1 = -1 THEN { }
                       ELSE { << wordPtr(nvm, offset1, 2), 2 >> }),
        ptr |-> [k \in 1..maxMac |-> wordPtr(nvm, at[k], 6)]]

\* The number of MAC addresses the loop gets through before wordPtr()
\* throws.
macCount(ptr) ==
    IF \A k \in 1..maxMac : ptr[k] # -1 THEN maxMac
    ELSE (CHOOSE k \in 1..maxMac :
            ptr[k] = -1 /\ \A m \in 1..(k - 1) : ptr[m] # -1) - 1

\* NvmX722::getMac(): the addresses, each as its three words, and the
\* ranges of the file that were read (offset, length).
getMac(nvm) ==
    LET t == macTable(nvm)
        n == IF t.ok THEN macCount(t.ptr) ELSE 0
    IN [ok |-> t.ok /\ n = maxMac,
        mac |-> [k \in 1..n |->
                   << Rd(nvm.words, t.ptr[k]), Rd(nvm.words, t.ptr[k] + 2),
                      Rd(nvm.words, t.ptr[k] + 4) >>],
        touched |-> t.read \cup { << t.ptr[k], 6 >> : k \in 1..n }]

\* Faulty variant of copyMac: the address is written one word further.
Mut_copyMac(words, ptr, mac) ==
    Wr(Wr(Wr(words, ptr + 2, mac[1]), ptr + 4, mac[2]), ptr + 6, mac[3])

\* std::copy(mac[i], mac[i] + sizeof(mac_t), macPtr) of setMac().
copyMac(words, ptr, mac) ==
    Wr(Wr(Wr(words, ptr, mac[1]), ptr + 2, mac[2]), ptr + 4, mac[3])

\* The loop of setMac() over the first n addresses.
RECURSIVE copyMacs(_, _, _, _)
copyMacs(words, ptr, mac, n) ==
    IF n = 0 THEN words
    ELSE copyMac(copyMacs(words, ptr, mac, n - 1), ptr[n], mac[n])

RECURSIVE SumOver(_, _)
SumOver(words, S) ==
    IF S = { } THEN 0
    ELSE LET b == CHOOSE x \in S : TRUE
         IN Word(words[b] + SumOver(words, S \ { b }))

\* Faulty variant of calcChecksum: the checksum word itself is summed too.
Mut_calcChecksum(nvm) ==
    LET vpdStart == readWord(nvm, vpdOffset)
        Summed(k) ==
            /\ ~(k >= vpdStart /\ k < vpdStart + vpdSize \div 2)
            /\ k < (bankSize - pcieAltSize) \div 2
        inBank == { b \in DOMAIN nvm.words :
                      /\ b >= nvm.start /\ b < nvm.start + bankSize
                      /\ Summed((b - nvm.start) \div 2) }
    IN IF vpdStart = -1 THEN -1
       ELSE Word(checksumBase - SumOver(nvm.words, inBank))

\* NvmX722::calcChecksum(): checksumBase minus the sum of the words of the
\* bank but the checksum word, the VPD module and the PCIe ALT module at
\* the end of the bank; -1 when a readWord() throws. The words that are not
\* listed are zero and add nothing to the sum.
calcChecksum(nvm) ==
    LET vpdStart == readWord(nvm, vpdOffset)
        Summed(k) ==
            /\ k # checksumOffset
            /\ ~(k >= vpdStart /\ k < vpdStart + vpdSize \div 2)
            /\ k < (bankSize - pcieAltSize) \div 2
        inBank == { b \in DOMAIN nvm.words :
                      /\ b >= nvm.start /\ b < nvm.start + bankSize
                      /\ Summed((b - nvm.start) \div 2) }
    IN IF \/ vpdStart = -1
          \/ /\ nvm.start + bankSize > nvm.size
             /\ \E k \in 0..(bankSize \div 2 - 1) :
                   Summed(k) /\ wordPtr(nvm, k, 2) = -1
       THEN -1
       ELSE Word(checksumBase - SumOver(nvm.words, inBank))

\* NvmX722::setMac(mac) up to msync(): the addresses are written until
\* wordPtr() throws, then the checksum of the bank is stored. What was
\* written to the mapping stays written when an exception follows.
setMac(nvm, mac) ==
    LET t == macTable(nvm)
        n == IF t.ok THEN macCount(t.ptr) ELSE 0
        written == [nvm EXCEPT !.words = copyMacs(nvm.words, t.ptr, mac, n)]
        chkSumPtr == wordPtr(nvm, checksumOffset, 2)
        chkSum == calcChecksum(written)
        done == t.ok /\ n = maxMac /\ chkSumPtr # -1 /\ chkSum # -1
    IN [ok |-> done,
        nvm |-> IF done
                THEN [written EXCEPT
                        !.words = Wr(written.words, chkSumPtr, chkSum)]
                ELSE written,
        touched |-> t.read \cup { << t.ptr[k], 6 >> : k \in 1..n }
                    \cup (IF t.ok /\ n = maxMac /\ chkSumPtr # -1
                          THEN { << chkSumPtr, 2 >>,
                                 << nvm.start, bankSize - pcieAltSize >> }
                          ELSE { })]

\* ------------------------------------------------------- NvmX722's files
\* A bank at byte offset `at` of a file: its control word, the two chained
\* pointers, four MAC entries with their header words, the pointer to the
\* VPD module and the checksum word.
Bank(at, ctl, p1, p2, mac, vpd, chk) ==
    LET W(offset, v) == (at + Word(offset) * 2) :> v
        table == Word(Word(p1 + magicOffset2) + p2)
        Entry(k) ==
            LET o == table + (k - 1) * (macHeaderSize + 3)
            IN W(o, 32768 + k) @@ W(o + 1, mac[k][1])
               @@ W(o + 2, mac[k][2]) @@ W(o + 3, mac[k][3])
    IN W(controlWord, ctl) @@ W(magicOffset1, p1)
       @@ W(p1 + magicOffset2, p2) @@ W(vpdOffset, vpd)
       @@ W(checksumOffset, chk)
       @@ Entry(1) @@ Entry(2) @@ Entry(3) @@ Entry(4)

\* MAC addresses: those of the flash and those of a new image.
MacsOfFlash ==
    << << 41216, 4660, 1 >>, << 41216, 4660, 2 >>, << 41216, 4660, 3 >>,
       << 41216, 4660, 4 >> >>
MacsOfImage == << << 0, 0, 0 >>, << 0, 0, 0 >>, << 0, 0, 0 >>, << 0, 0, 0 >> >>

\* The files NvmX722 is opened on: a 10GBE image (nvmSize bytes) or a BIOS
\* image with the region at nvmOffset; each bank valid or not; the first
\* pointer inside the bank or, in a damaged image, far beyond it; the VPD
\* module apart from the MAC table or over it; the stored checksum right
\* or stale. And two files without a region: one too small, one that ends
\* before nvmOffset.
NvmFiles ==
    LET Region(at, size, ctl0, ctl1, p1, vpd, stale) ==
            LET words == Bank(at, ctl0, p1, 8, MacsOfFlash, vpd, 0)
                           @@ Bank(at + bankSize, ctl1, p1, 8, MacsOfImage,
                                   vpd, 0)
                r == NvmX722([size |-> size, words |-> words])
                chk == IF r.what = "" THEN calcChecksum(r.nvm) ELSE 0
            IN [size |-> size,
                words |-> IF r.what = "" /\ ~stale
                          THEN Wr(words, r.nvm.start + checksumOffset * 2, chk)
                          ELSE words]
    IN { Region(f[1], f[2], ctl0, ctl1, p1, vpd, stale) :
           f \in { << 0, nvmSize >>,
                   << nvmOffset, nvmOffset + nvmSize + bankSize >> },
           ctl0 \in { bankValid, 65535 }, ctl1 \in { bankValid, 65535 },
           p1 \in { 256, 65488 }, vpd \in { 512, 256 },
           stale \in BOOLEAN }
       \cup { [size |-> nvmSize - 2, words |-> Bank(0, bankValid, 256, 8,
                                                   MacsOfFlash, 512, 0)],
              [size |-> nvmOffset, words |-> Bank(nvmOffset, bankValid, 256,
                                                  8, MacsOfFlash, 512, 0)] }

\* ------------------------------------------------ the client of NvmX722
\* The object on a file: not constructed yet ("new"), constructed ("open"),
\* or left by an exception ("thrown"); the file as it was opened; the
\* addresses the last getMac() returned; the ranges of the file touched
\* since the construction; and the last call.
NvmFrame(file) ==
    [fn |-> "NvmX722", pc |-> "new", file |-> file,
     nvm |-> [size |-> file.size, start |-> 0, words |-> file.words],
     mac |-> << >>, touched |-> { }, last |-> [op |-> "none"]]

NvmX722_ctor ==
    /\ frame.fn = "NvmX722" /\ frame.pc = "new"
    /\ LET r == NvmX722(frame.file)
       IN frame' = [frame EXCEPT
                      !.pc = IF r.what = "" THEN "open" ELSE "thrown",
                      !.nvm = r.nvm,
                      !.last = [op |-> "NvmX722", what |-> r.what]]
    /\ UNCHANGED session

NvmX722_getMac ==
    /\ frame.fn = "NvmX722" /\ frame.pc = "open"
    /\ LET r == getMac(frame.nvm)
       IN frame' = [frame EXCEPT
                      !.pc = IF r.ok THEN "open" ELSE "thrown",
                      !.mac = IF r.ok THEN r.mac ELSE @,
                      !.touched = @ \cup r.touched,
                      !.last = [op |-> "getMac", ok |-> r.ok]]
    /\ UNCHANGED session

\* setMac() with the addresses getMac() returned or with those of the
\* flash; msync() may fail.
NvmX722_setMac ==
    /\ frame.fn = "NvmX722" /\ frame.pc = "open"
    /\ \E mac \in { frame.mac, MacsOfFlash }, msync \in BOOLEAN :
        /\ mac # << >>
        /\ LET r == setMac(frame.nvm, mac)
           IN frame' = [frame EXCEPT
                          !.pc = IF r.ok /\ msync THEN "open" ELSE "thrown",
                          !.nvm = r.nvm,
                          !.touched = @ \cup r.touched,
                          !.last = [op |-> "setMac", mac |-> mac,
                                    ok |-> r.ok /\ msync]]
    /\ UNCHANGED session

NextNvm == NvmX722_ctor \/ NvmX722_getMac \/ NvmX722_setMac

\* The session does not run: the class is exercised on its own.
NoSession ==
    /\ cfg = Build("base2", "BIOS", "OBMC", TRUE, TRUE, TRUE)
    /\ opt \in { o \in PlainOptions : o.mode = "flash" }
    /\ pkg = NoPackage
    /\ hw = [daemonState |-> 0, guard |-> FALSE, spiBound |-> TRUE,
             oepol |-> FALSE, machine |-> ThisMachine, store |-> GoodStore]
    /\ fw = [alive |-> FALSE, tmpdir |-> FALSE, locked |-> FALSE]
    /\ updaters = << >>
    /\ bios = NullBios
    /\ pc = "helper"
    /\ i = 0
    /\ ctx = "none"
    /\ exc = "none"
    /\ ret = FALSE
    /\ exitCode = "none"
    /\ trace = << >>

InitNvm == NoSession /\ frame \in { NvmFrame(file) : file \in NvmFiles }

SpecNvm == InitNvm /\ [][NextNvm]_vars

\* ================================================= bindOrUnbindSPIDriver
maxDriverBindingChecks == 100
delayBetweenChecksMS == 20

\* The locals of bindOrUnbindSPIDriver(action) and what it has done so
\* far: the loop counter, the checks made and how many of them saw the
\* requested state, what the last check saw, the time slept; and `bound`,
\* the state of the driver, which the kernel changes when it will.
SpiFrame(action, bound) ==
    [fn |-> "bindOrUnbindSPIDriver", pc |-> "write", action |-> action,
     bound |-> bound, i |-> 0, checks |-> 0, matches |-> 0,
     seen |-> ~action, slept |-> 0, what |-> ""]

\* The request is written to the bind or unbind file of the driver in
\* sysfs; a failure of the stream is an exception.
bindOrUnbindSPIDriver_write ==
    /\ frame.fn = "bindOrUnbindSPIDriver" /\ frame.pc = "write"
    /\ \E ok \in BOOLEAN, b \in BOOLEAN :
        frame' = IF ok THEN [frame EXCEPT !.pc = "for", !.bound = b]
                 ELSE [frame EXCEPT !.pc = "thrown",
                                    !.what = "Unable to bind/unbind SPI driver!"]
    /\ UNCHANGED session

\* Faulty variant of ForCondition: one check more.
Mut_ForCondition(n) == n <= maxDriverBindingChecks

\* i < maxDriverBindingChecks
ForCondition(n) == n < maxDriverBindingChecks

\* The head and the first statement of the loop: when the condition fails
\* the function throws "timed out"; otherwise isSPIDriverBound() is
\* compared with the action and the function returns when they are equal.
bindOrUnbindSPIDriver_for ==
    /\ frame.fn = "bindOrUnbindSPIDriver" /\ frame.pc = "for"
    /\ frame' =
         IF ~ForCondition(frame.i)
         THEN [frame EXCEPT !.pc = "thrown",
                            !.what = "The SPI driver binding/unbinding timed out!"]
         ELSE IF frame.bound = frame.action
         THEN [frame EXCEPT !.pc = "returned", !.checks = @ + 1,
                            !.matches = @ + 1, !.seen = frame.bound]
         ELSE [frame EXCEPT !.pc = "sleep", !.checks = @ + 1,
                            !.seen = frame.bound]
    /\ UNCHANGED session

\* sleep_for(delayBetweenChecksMS) and ++i; the driver may come or go
\* meanwhile.
bindOrUnbindSPIDriver_sleep ==
    /\ frame.fn = "bindOrUnbindSPIDriver" /\ frame.pc = "sleep"
    /\ \E b \in BOOLEAN :
        frame' = [frame EXCEPT !.pc = "for", !.i = @ + 1, !.bound = b,
                               !.slept = @ + delayBetweenChecksMS]
    /\ UNCHANGED session

NextSpi ==
    \/ bindOrUnbindSPIDriver_write
    \/ bindOrUnbindSPIDriver_for
    \/ bindOrUnbindSPIDriver_sleep

InitSpi ==
    /\ NoSession
    /\ frame \in { SpiFrame(action, bound) : action, bound \in BOOLEAN }

\* The function runs in the one thread of the process: a step that can be
\* taken is taken.
SpecSpi == InitSpi /\ [][NextSpi]_vars /\ WF_vars(NextSpi)

\* ====================================================== unmountFilesystem
maxTries == 40
delay == 500000

\* The locals of unmountFilesystem() and what it has done so far: the
\* umount() calls made, the result of the last one, the time slept.
UmountFrame ==
    [fn |-> "unmountFilesystem", pc |-> "umount", tryNumber |-> 0,
     attempts |-> 0, rc |-> "none", slept |-> 0]

\* Faulty variant of TryAgain: one retry more.
Mut_TryAgain(tryNumber) == tryNumber <= maxTries

\* tryNumber < maxTries
TryAgain(tryNumber) == tryNumber < maxTries

\* One pass of the loop up to usleep(): umount() returns 0 ("ok") or -1
\* with errno EBUSY or with another errno.
unmountFilesystem_umount ==
    /\ frame.fn = "unmountFilesystem" /\ frame.pc = "umount"
    /\ \E rc \in { "ok", "EBUSY", "other" } :
        frame' =
          IF rc = "EBUSY" /\ TryAgain(frame.tryNumber)
          THEN [frame EXCEPT !.pc = "usleep", !.tryNumber = @ + 1,
                             !.attempts = @ + 1, !.rc = rc]
          ELSE IF rc # "ok"
          THEN [frame EXCEPT !.pc = "thrown", !.attempts = @ + 1, !.rc = rc]
          ELSE [frame EXCEPT !.pc = "returned", !.attempts = @ + 1,
                             !.rc = rc]
    /\ UNCHANGED session

\* usleep(delay), then the loop starts over.
unmountFilesystem_usleep ==
    /\ frame.fn = "unmountFilesystem" /\ frame.pc = "usleep"
    /\ frame' = [frame EXCEPT !.pc = "umount", !.slept = @ + delay]
    /\ UNCHANGED session

NextUmount == unmountFilesystem_umount \/ unmountFilesystem_usleep

InitUmount == NoSession /\ frame = UmountFrame

\* The function runs in the one thread of the process: a step that can be
\* taken is taken.
SpecUmount == InitUmount /\ [][NextUmount]_vars /\ WF_vars(NextUmount)

\* ============================================================== doInstall
\* doInstall(file) of one updater on one file it owns, as the loop of
\* FwUpdBase::install calls it: the frame holds the updater's kind, the
\* file, whether fs::file_size(file) is zero, what else the hook finds, and
\* the events of the call.

Kinds == { "PNOR", "BIOS", "OBMC", "INTEL" }

OwnedFiles ==
    PayloadNames \cup { Path("image-mtd", ""), Path("image-kernel", "") }

\* Envs(kind) with the file empty or not, whichever the updater.
SizedEnvs(kind) ==
    { [env EXCEPT !.zero = zero] : env \in Envs(kind), zero \in BOOLEAN }

DoInstallFrame(kind, file, env) ==
    [fn |-> "doInstall", pc |-> "call", kind |-> kind, file |-> file,
     env |-> env, events |-> << >>]

\* The call: every step of the hook runs, or a step that can fail throws
\* and ends it.
FwUpdBase_doInstall ==
    /\ frame.fn = "doInstall" /\ frame.pc = "call"
    /\ LET steps == doInstall([kind |-> frame.kind,
                               files |-> << frame.file >>],
                              frame.file, frame.env)
       IN \E fail \in { 0 } \cup { k \in 1..Len(steps) : steps[k].failable } :
            /\ (fail = 0) => \A k \in 1..Len(steps) : steps[k].r # "throw"
            /\ frame' = [frame EXCEPT
                           !.pc = IF fail = 0 THEN "returned" ELSE "thrown",
                           !.events = StepEvents(steps, fail)]
    /\ UNCHANGED session

NextDoInstall == FwUpdBase_doInstall

InitDoInstall ==
    /\ NoSession
    /\ \E kind \in Kinds :
         \E file \in { f \in OwnedFiles : isFileFlashable(kind, f) } :
           \E env \in SizedEnvs(kind) :
              frame = DoInstallFrame(kind, file, env)

SpecDoInstall == InitDoInstall /\ [][NextDoInstall]_vars

\* ==================================================== readNvram, writeNvram
\* BIOSUpdater::readNvram(file) and writeNvram(file): a BIOSUpdater of their
\* own is locked, the tool runs, the updater is unlocked; catch (...) calls
\* unlock() once more and throws the exception on. The frame holds the
\* updater's state, the calls made, the exception in flight and what went to
\* stderr.
NvramFrame(fn) ==
    [fn |-> fn, pc |-> "lock", st |-> BiosSt(NullBios, hw, FALSE),
     calls |-> << >>, exc |-> "none", stderr |-> << >>]

\* The tool between lock() and unlock(): dd for readNvram; the link of the
\* MTD device resolved, then mtd-util, for writeNvram.
NvramTool(fn) ==
    IF fn = "readNvram" THEN << Cmd("BIOS", "dd NVRAM") >>
    ELSE << Cmd("BIOS", "read_symlink mtd"), Cmd("BIOS", "mtd-util cp NVRAM") >>

\* Faulty variant of Rethrown: the exception of the second unlock() leaves.
Mut_Rethrown(caught, ex) == ex

\* `throw;` at the end of catch (...): the exception that was caught leaves
\* the function, not the one of the unlock() inside the handler.
Rethrown(caught, ex) == caught

\* upd.lock()
Nvram_lock ==
    /\ frame.fn \in { "readNvram", "writeNvram" } /\ frame.pc = "lock"
    /\ \E chassisOn \in BOOLEAN, inputBit \in BOOLEAN,
          fail \in 0..Len(BIOSLockOps) :
         LET r == RunOps(frame.st, BIOSLockOps, fail, inputBit)
         IN /\ (fail = ChassisCheckAt) => chassisOn
            /\ chassisOn => (fail # 0 /\ fail <= ChassisCheckAt)
            /\ (fail # 0) => r.failed
            /\ frame' = [frame EXCEPT
                           !.pc = IF fail = 0 THEN "tool" ELSE "catch",
                           !.st = r.st,
                           !.exc = IF fail = 0 THEN "none" ELSE "lock",
                           !.calls = @ \o << Ev("lock", "BIOS", "",
                                                IF fail = 0 THEN "ok"
                                                ELSE "throw") >> \o r.evs]
    /\ UNCHANGED session

\* The tool and checkWaitStatus().
Nvram_tool ==
    /\ frame.fn \in { "readNvram", "writeNvram" } /\ frame.pc = "tool"
    /\ \E fail \in 0..Len(NvramTool(frame.fn)) :
         frame' = [frame EXCEPT
                     !.pc = IF fail = 0 THEN "unlock" ELSE "catch",
                     !.exc = IF fail = 0 THEN "none" ELSE "tool",
                     !.calls = @ \o StepEvents(NvramTool(frame.fn), fail)]
    /\ UNCHANGED session

\* upd.unlock(), at the end of the try block or inside catch (...), where
\* what it throws is printed and the caught exception is thrown on.
Nvram_unlock ==
    /\ frame.fn \in { "readNvram", "writeNvram" }
    /\ frame.pc \in { "unlock", "catch" }
    /\ \E fail \in 0..Len(BIOSUnlockOps) :
         LET runs == BIOSUpdater_unlock_runs(frame.st)
             r == IF runs THEN RunOps(frame.st, BIOSUnlockOps, fail, FALSE)
                  ELSE [st |-> frame.st, evs |-> << >>, failed |-> FALSE]
             ev == Ev("unlock", "BIOS", "", IF fail = 0 THEN "ok" ELSE "throw")
         IN /\ (fail # 0) => (runs /\ r.failed)
            /\ frame' =
                 IF frame.pc = "unlock"
                 THEN [frame EXCEPT
                         !.pc = IF fail = 0 THEN "returned" ELSE "catch",
                         !.st = r.st,
                         !.exc = IF fail = 0 THEN "none" ELSE "unlock",
                         !.calls = @ \o << ev >> \o r.evs]
                 ELSE [frame EXCEPT
                         !.pc = "thrown",
                         !.st = r.st,
                         !.exc = Rethrown(frame.exc, "unlock in catch"),
                         !.stderr = IF fail = 0 THEN @
                                    ELSE Append(@, "unlock in catch"),
                         !.calls = @ \o << ev >> \o r.evs]
    /\ UNCHANGED session

NextNvram == Nvram_lock \/ Nvram_tool \/ Nvram_unlock

InitNvram ==
    /\ NoSession
    /\ \E fn \in { "readNvram", "writeNvram" } : frame = NvramFrame(fn)

SpecNvram == InitNvram /\ [][NextNvram]_vars

\* ======================================================== getPartsToClear
\* The flash inventory `pflash -i` prints, as the characters exec() returns,
\* and the two parsers of it: std::regex_match with PnorPartInfo in
\* image_openpower.cpp, and the search for '[' and ' ' in openpower.cpp.

\* Most lines of an inventory.
MaxLines == 2

Digits == { "0", "1", "2", "3", "4", "5", "6", "7", "8", "9" }

\* \w over the characters that occur in the inventories.
WordChars ==
    Digits \cup { "_", "I", "D", "M", "V", "P", "H", "B", "E", "L", "F",
                  "C", "T", "O", "a", "c", "t", "u", "l", "x", "d", "b",
                  "p", "r", "s", "i", "n", "f", "o" }

\* \s
SpaceChars == { " ", "\t" }

\* Last place of the run of characters of `class` that starts at `from`
\* (from - 1 when there is none).
RunEnd(line, from, class) ==
    LET ks == { k \in from..Len(line) :
                  \A j \in from..k : line[j] \in class }
    IN IF ks = { } THEN from - 1 ELSE CHOOSE k \in ks : \A m \in ks : m <= k

\* Places of character c in the line.
Find(line, c) == { k \in 1..Len(line) : line[k] = c }

Least(ks) == CHOOSE k \in ks : \A m \in ks : k <= m

\* std::regex_match(line, match, PnorPartInfo) with
\* "^ID=\\d+\\s+(\\w+)\\s.*\\[([^\\]]+)\\]$": match[1] and match[2].
PnorPartInfo(line) ==
    LET n == Len(line)
        d == RunEnd(line, 4, Digits)
        s == RunEnd(line, d + 1, SpaceChars)
        w == RunEnd(line, s + 1, WordChars)
        \* '[' with at least one character, none of them ']', up to the ']'
        \* that ends the line; .* is greedy: the last such '['
        ps == { p \in Find(line, "[") :
                  /\ p >= w + 2 /\ p <= n - 2
                  /\ \A q \in (p + 1)..(n - 1) : line[q] # "]" }
        p == CHOOSE q \in ps : \A m \in ps : m <= q
    IN IF /\ n >= 4 /\ SubSeq(line, 1, 3) = << "I", "D", "=" >>
          /\ d >= 4 /\ s >= d + 1 /\ w >= s + 1
          /\ w + 1 <= n /\ line[w + 1] \in SpaceChars
          /\ line[n] = "]" /\ ps # { }
       THEN [matched |-> TRUE, name |-> SubSeq(line, s + 1, w),
             flags |-> SubSeq(line, p + 1, n - 1)]
       ELSE [matched |-> FALSE, name |-> << >>, flags |-> << >>]

\* What openpower.cpp takes from a line: flags from the first '[' to the
\* end of the line, the name between the first run of spaces and the next
\* space; `continue` when one of the searches finds nothing.
PartInfo_base1(line) ==
    LET n == Len(line)
        br == Find(line, "[")
        sp == Find(line, " ")
        pos == Least(sp)
        ns == { k \in pos..n : line[k] # " " }
        from == Least(ns)
        es == { k \in sp : k >= from }
    IN IF br = { } \/ sp = { } \/ ns = { } \/ es = { }
       THEN [matched |-> FALSE, name |-> << >>, flags |-> << >>]
       ELSE [matched |-> TRUE, name |-> SubSeq(line, from, Least(es) - 1),
             flags |-> SubSeq(line, Least(br), n)]

\* The lines std::getline yields, by the place where each starts.
LineStarts(info) ==
    { k \in 1..Len(info) : k = 1 \/ info[k - 1] = "\n" }

LineAt(info, k) ==
    SubSeq(info, k, Least({ e \in k..(Len(info) + 1) :
                              e = Len(info) + 1 \/ info[e] = "\n" }) - 1)

\* Faulty variant of Reprovision: flag P is taken for flag F.
Mut_Reprovision(flags) == Find(flags, "P") # { }

\* flags.find('F') != std::string::npos
Reprovision(flags) == Find(flags, "F") # { }

\* getPartsToClear(info): ret[name] = flags.find('E') != npos for each
\* line that the parser of the revision takes and that has flag F; a later
\* line of the same name overwrites an earlier one.
getPartsToClear(rev, info) ==
    LET Part(k) == IF rev = "base1" THEN PartInfo_base1(LineAt(info, k))
                   ELSE PnorPartInfo(LineAt(info, k))
        ks == { k \in LineStarts(info) :
                  Part(k).matched /\ Reprovision(Part(k).flags) }
        Last(name) == CHOOSE k \in ks :
                        /\ Part(k).name = name
                        /\ \A m \in ks : Part(m).name = name => m <= k
    IN [name \in { Part(k).name : k \in ks } |->
          Find(Part(Last(name)).flags, "E") # { }]

\* A line of the partition table as pflash prints it: the name stands
\* right-aligned after the ID.
Partition(id, pad, name, flags) ==
    << "I", "D", "=" >> \o id \o pad \o name
    \o << " ", "0", "x", "0", "0", "1", "2", "d", "0", "0", "0", ".", ".",
       "0", "x", "0", "0", "1", "b", "d", "0", "0", "0", " ", "(", "a", "c",
       "t", "u", "a", "l", "=", "0", "x", "0", "0", "0", "9", "0", "0", "0",
       "0", ")", " " >>
    \o << "[" >> \o flags \o << "]" >>

PartNames ==
    { << "M", "V", "P", "D" >>, << "H", "B", "E", "L" >>,
      << "p", "a", "r", "t" >> }

PartFlags ==
    { << "E", "-", "-", "P", "-", "-", "F", "-", "C", "-" >>,
      << "-", "-", "-", "-", "-", "-", "-", "-", "-", "-" >>,
      << "E", "-", "-", "P", "-", "-", "-", "-", "-", "-" >>,
      << "-", "-", "-", "-", "-", "-", "F", "-", "-", "-" >> }

\* Lines of the inventory that head the table.
HeadLines ==
    { << "T", "O", "C", "@", "0", "x", "0", "0", "0", "0", "0", "0", "0",
         "0", " ", "P", "a", "r", "t", "i", "t", "i", "o", "n", "s", ":" >>,
      << "E", "r", "a", "s", "e", " ", "g", "r", "a", "n", "u", "l", "e",
         " ", "=", " ", "6", "4", "K", "B", " ", "F", ":", "R", "E", "P",
         "R", "O", "V", "I", "S", "I", "O", "N" >> }

\* The partitions of an inventory: each name once.
Inventories ==
    { parts \in SeqsOver([name : PartNames, flags : PartFlags,
                          pad : { << " " >>, << " ", " ", " " >> }],
                         MaxLines) :
        \A a, b \in 1..Len(parts) : parts[a].name = parts[b].name => a = b }

\* What pflash prints for the partitions: a head line or none, then one
\* line for each partition, each ended by a line feed.
InfoOf(head, parts) ==
    head
    \o Flatten([k \in 1..Len(parts) |->
                  Partition(<< "0", "6" >>, parts[k].pad, parts[k].name,
                            parts[k].flags) \o << "\n" >>])

PartsFrame(rev, head, parts) ==
    [fn |-> "getPartsToClear", pc |-> "call", rev |-> rev, parts |-> parts,
     info |-> InfoOf(head, parts), ret |-> << >>]

getPartsToClear_call ==
    /\ frame.fn = "getPartsToClear" /\ frame.pc = "call"
    /\ frame' = [frame EXCEPT !.pc = "returned",
                              !.ret = getPartsToClear(frame.rev, frame.info)]
    /\ UNCHANGED session

NextParts == getPartsToClear_call

InitParts ==
    /\ NoSession
    /\ \E rev \in { "base1", "base2" }, parts \in Inventories :
         \E head \in { << >> } \cup { h \o << "\n" >> : h \in HeadLines } :
            frame = PartsFrame(rev, head, parts)

SpecParts == InitParts /\ [][NextParts]_vars

\* =============================================================== stopUnit
\* stopUnit(unitname) of the revision that waits for the stop job: the
\* frame holds the local serviceStopped, the JobRemoved match object, the
\* read queue of the bus connection, the stop job at the service manager and
\* the calls and deliveries so far.

\* Most JobRemoved signals of jobs other than the requested stop job that
\* the service manager emits during one call.
MaxSignals == 2

Units == { "nv-sync.service", "logrotate.service" }

\* Results the service manager reports in JobRemoved.
JobResults == { "done", "failed", "canceled" }

StopFrame(unitname, exists) ==
    [fn |-> "stopUnit", pc |-> "doesUnitExist", unitname |-> unitname,
     exists |-> exists, serviceStopped |-> FALSE, match |-> FALSE,
     job |-> "none", rqueue |-> << >>, signals |-> 0, log |-> << >>]

Call(method) == << method, "", "" >>

\* Faulty variant of JobRemoved: any result of the unit counts.
Mut_JobRemoved(unitname, newStateUnit, newStateResult) ==
    newStateUnit = unitname

\* The match callback: newStateUnit == unitname && newStateResult == "done"
JobRemoved(unitname, newStateUnit, newStateResult) ==
    newStateUnit = unitname /\ newStateResult = "done"

\* if (doesUnitExist(unitname)): GetUnit answers or raises SdBusError,
\* which doesUnitExist turns into false.
stopUnit_doesUnitExist ==
    /\ frame.fn = "stopUnit" /\ frame.pc = "doesUnitExist"
    /\ frame' = [frame EXCEPT
                   !.pc = IF frame.exists THEN "match" ELSE "returned",
                   !.log = Append(@, Call("GetUnit"))]
    /\ UNCHANGED session

\* sdbusplus::bus::match_t systemdSignals(...): from here on JobRemoved
\* signals reach the connection.
stopUnit_match ==
    /\ frame.fn = "stopUnit" /\ frame.pc = "match"
    /\ frame' = [frame EXCEPT !.pc = "Subscribe", !.match = TRUE]
    /\ UNCHANGED session

\* subscribeToSystemdSignals() and unsubscribeFromSystemdSignals():
\* call_noreply returns or raises SdBusError.
stopUnit_subscribe ==
    /\ frame.fn = "stopUnit" /\ frame.pc \in { "Subscribe", "Unsubscribe" }
    /\ \E ok \in BOOLEAN :
        frame' = [frame EXCEPT
                    !.pc = IF ~ok THEN "thrown"
                           ELSE IF frame.pc = "Subscribe" THEN "StopUnit"
                           ELSE "returned",
                    !.match = ok /\ frame.pc = "Subscribe",
                    !.log = Append(@, Call(frame.pc))]
    /\ UNCHANGED session

\* systemBus.call_noreply(req) of StopUnit, the sending half: the service
\* manager queues the stop job or refuses.
stopUnit_StopUnit ==
    /\ frame.fn = "stopUnit" /\ frame.pc = "StopUnit"
    /\ \E ok \in BOOLEAN :
        frame' = [frame EXCEPT
                    !.pc = IF ok THEN "reply" ELSE "thrown",
                    !.match = ok,
                    !.job = IF ok THEN "queued" ELSE "none",
                    !.log = Append(@, Call("StopUnit"))]
    /\ UNCHANGED session

\* The receiving half: the method reply is taken, signals that came before
\* it stay in the read queue.
stopUnit_reply ==
    /\ frame.fn = "stopUnit" /\ frame.pc = "reply"
    /\ frame' = [frame EXCEPT !.pc = "while"]
    /\ UNCHANGED session

\* while (!serviceStopped)
stopUnit_while ==
    /\ frame.fn = "stopUnit" /\ frame.pc = "while"
    /\ frame' = [frame EXCEPT
                   !.pc = IF frame.serviceStopped THEN "Unsubscribe"
                          ELSE "process_discard"]
    /\ UNCHANGED session

\* systemBus.process_discard(): one queued message, if any, goes through
\* the match callback; then if (!serviceStopped) leads to wait().
stopUnit_process_discard ==
    /\ frame.fn = "stopUnit" /\ frame.pc = "process_discard"
    /\ LET stopped ==
             /\ frame.rqueue # << >>
             /\ JobRemoved(frame.unitname, Head(frame.rqueue)[2],
                           Head(frame.rqueue)[3])
       IN frame' =
            IF frame.rqueue = << >>
            THEN [frame EXCEPT !.pc = "wait"]
            ELSE [frame EXCEPT
                    !.pc = IF stopped THEN "while" ELSE "wait",
                    !.serviceStopped = stopped,
                    !.rqueue = Tail(@),
                    !.log = Append(@, Head(frame.rqueue))]
    /\ UNCHANGED session

\* systemBus.wait() returns once the connection has something to process.
stopUnit_wait ==
    /\ frame.fn = "stopUnit" /\ frame.pc = "wait"
    /\ frame.rqueue # << >>
    /\ frame' = [frame EXCEPT !.pc = "while"]
    /\ UNCHANGED session

\* The service manager removes the stop job and emits JobRemoved with the
\* job's result.
systemd_JobRemoved ==
    /\ frame.fn = "stopUnit" /\ frame.job = "queued"
    /\ \E result \in JobResults :
        frame' = [frame EXCEPT
                    !.job = result,
                    !.rqueue = IF frame.match
                               THEN Append(@, << "JobRemoved",
                                                 frame.unitname, result >>)
                               ELSE @]
    /\ UNCHANGED session

\* The service manager emits JobRemoved of another job, of this unit or of
\* another one.
systemd_JobRemoved_other ==
    /\ frame.fn = "stopUnit"
    /\ frame.pc \notin { "returned", "thrown" }
    /\ frame.signals < MaxSignals
    /\ \E unit \in Units, result \in JobResults :
        frame' = [frame EXCEPT
                    !.signals = @ + 1,
                    !.rqueue = IF frame.match
                               THEN Append(@, << "JobRemoved", unit,
                                                 result >>)
                               ELSE @]
    /\ UNCHANGED session

NextStop ==
    \/ stopUnit_doesUnitExist
    \/ stopUnit_match
    \/ stopUnit_subscribe
    \/ stopUnit_StopUnit
    \/ stopUnit_reply
    \/ stopUnit_while
    \/ stopUnit_process_discard
    \/ stopUnit_wait
    \/ systemd_JobRemoved
    \/ systemd_JobRemoved_other

InitStop ==
    /\ NoSession
    /\ \E unitname \in Units, exists \in BOOLEAN :
          frame = StopFrame(unitname, exists)

\* The function runs in the one thread of the process and the service
\* manager in its own: a step that can be taken is taken.
SpecStop == InitStop /\ [][NextStop]_vars /\ WF_vars(NextStop)

\* ================================================================= claims
Idx == 1..Len(trace)

\* A lock is being taken: an updater's lock() or the start of the reboot
\* guard.
IsLockStep(ev) ==
    \/ ev.e = "lock"
    \/ ev.e = "startUnit" /\ ev.a = "REBOOT_GUARD_ENABLE"

\* A hook of FwUpdBase::install.
IsInstallStep(ev) ==
    ev.e \in { "doBeforeInstall", "doInstall", "doAfterInstall" }

\* Anything an updater does to the world: all its events but signature
\* checks and the unlock() calls.
IsUpdaterAction(ev) ==
    ev.u \in Kinds /\ ev.e \notin { "verifyFile", "unlock" }

IsVerifyStep(ev) ==
    ev.e \in { "verify", "systemLevelVerify", "getFWFile", "verifyFile",
               "verified" }

\* No lock of any kind is held and no hardware is left switched over.
LocksReleased ==
    /\ ~fw.locked
    /\ \A k \in 1..Len(updaters) : ~updaters[k].locked
    /\ hw.guard = FALSE
    /\ hw.daemonState = 0
    /\ hw.oepol = FALSE
    /\ bios = NullBios

\* ---- C1
\* C1: in flash_firmware without --no-sign, no lock and no install hook
\* happens before verify() has completed, verify() completes only when every
\* signature was valid, and a signature that is not valid is followed by no
\* lock, hook or updater action at all; with --no-sign no step of verify()
\* ever happens and control goes from unpack straight to the lock.
C1_VerifyGatesInstall ==
    opt.mode = "flash" =>
        /\ ~opt.skip_sign_check =>
            /\ \A k \in Idx :
                 (IsLockStep(trace[k]) \/ IsInstallStep(trace[k])) =>
                     \E m \in 1..(k - 1) : trace[m].e = "verified"
            /\ \A k \in Idx :
                 trace[k].e = "verified" =>
                     \A m \in 1..k : trace[m].e = "verifyFile" =>
                                        trace[m].r = "valid"
            /\ (\E k \in Idx : trace[k].e = "verifyFile"
                               /\ trace[k].r # "valid") =>
                 \A k \in Idx : ~IsLockStep(trace[k])
                                /\ ~IsUpdaterAction(trace[k])
        /\ opt.skip_sign_check =>
            /\ \A k \in Idx : ~IsVerifyStep(trace[k])
            /\ pc \notin { "verify", "verify_upd" }

\* A run without --no-sign met a signature that does not match and ended
\* with EXIT_FAILURE.
C1_Witness ==
    /\ opt.mode = "flash"
    /\ ~opt.skip_sign_check
    /\ \E k \in Idx : trace[k].e = "verifyFile" /\ trace[k].r = "mismatch"
    /\ pc = "done"
    /\ exitCode = EXIT_FAILURE

\* ---- C2
\* C2: FwUpdBase::verify fails at the first file whose signature the
\* verifier does not confirm (it returns false or throws): no later file is
\* checked or accepted, verify() does not complete, and nothing is locked or
\* installed afterwards.
C2_VerifyFailFast ==
    \A k \in Idx :
        (trace[k].e = "verifyFile" /\ verifyFile(trace[k].r) # "true") =>
            \A m \in (k + 1)..Len(trace) :
                /\ trace[m].e \notin { "verifyFile", "verified" }
                /\ ~IsLockStep(trace[m])
                /\ ~IsInstallStep(trace[m])

\* ---- C3
\* The last lock step of the trace, 0 if there is none.
LastLockStep ==
    IF \E k \in Idx : IsLockStep(trace[k])
    THEN CHOOSE k \in Idx : /\ IsLockStep(trace[k])
                            /\ \A m \in Idx : IsLockStep(trace[m]) => m <= k
    ELSE 0

\* C3: when the process has ended after FwUpdate::lock() had started, on
\* whatever path, unlock() has run since on every updater and nothing is
\* held any more: no updater lock, no reboot guard, no GPIO line, HIOMAPD
\* not suspended.
C3_UnlockOnEveryExit ==
    (pc \in { "done", "terminated" } /\ LastLockStep # 0) =>
        /\ \A kind \in { cfg.host, cfg.bmc } :
             \E k \in (LastLockStep + 1)..Len(trace) :
                 trace[k].e = "unlock" /\ trace[k].u = kind
        /\ LocksReleased

\* ---- C4
\* C4: when an updater's unlock() has thrown, the process still ends through
\* main() (no std::terminate), the updaters after it have been unlocked, the
\* temporary directory is removed and the error reported is not the one of
\* the unlock.
C4_UnlockFailureSwallowed ==
    \A k \in Idx :
        (trace[k].e = "unlock" /\ trace[k].r = "throw") =>
            /\ pc # "terminated"
            /\ pc = "done" =>
                /\ ~fw.tmpdir
                /\ exc \notin { "Resume failed", "BIOS unlock failed" }
                /\ trace[k].u = cfg.host =>
                     \E m \in (k + 1)..Len(trace) :
                         trace[m].e = "unlock" /\ trace[m].u = cfg.bmc

\* ---- C5
UnlockedAt(k) ==
    IF k <= Len(updaters) THEN ~updaters[k].locked ELSE ~fw.locked

\* A step of unlock() that does nothing: no exception, no change of the lock
\* flags or of anything outside the process, and no external operation.
NoOpUnlockStep ==
    /\ pc' # "terminated"
    /\ exc' = exc
    /\ hw' = hw
    /\ bios' = bios
    /\ updaters' = updaters
    /\ fw' = fw
    /\ \A k \in (Len(trace) + 1)..Len(trace') :
         /\ trace'[k].e \in { "unlock", "unlocked" }
         /\ trace'[k].r # "throw"

\* C5: a step of unlock() at an updater, or at the reboot guard, that had
\* not been locked does nothing; and once FwUpdate::unlock() has returned,
\* every step of the unlock() that follows it does nothing either.
C5_UnlockIdempotent ==
    [][(/\ pc = "unlock"
        /\ \/ UnlockedAt(i)
           \/ \E k \in Idx : trace[k].e = "unlocked")
       => NoOpUnlockStep]_vars

\* HIOMAPD had been suspended and resumed, and FwUpdate::unlock() has
\* returned for the second time.
C5_Witness ==
    /\ \E k \in Idx : trace[k].e = "Resume" /\ trace[k].r = "ok"
    /\ \E k, m \in Idx : /\ k < m
                         /\ trace[k].e = "unlocked"
                         /\ trace[m].e = "unlocked"
    /\ pc = "dtor"

\* ---- C6
\* Number of events of the first n that satisfy the test.
CountUnlock(kind, n) ==
    Cardinality({ m \in 1..n : /\ trace[m].e = "unlock"
                               /\ trace[m].u = kind
                               /\ trace[m].r = "ok" })

IsGuardStop(ev) == ev.e = "startUnit" /\ ev.a = "REBOOT_GUARD_DISABLE"

\* C6: the reboot guard is taken before any updater's lock, the updater
\* registered last (the BMC one) is locked before the one registered first
\* (the host one); each unlock of the BMC updater comes after an unlock of
\* the host updater, and the guard is stopped after both: the lock taken
\* last is the one released first.
C6_LockStackOrder ==
    /\ \A k \in Idx :
         (trace[k].e = "lock" /\ cfg.guard) =>
             \E m \in 1..(k - 1) : /\ IsLockStep(trace[m])
                                   /\ trace[m].e = "startUnit"
                                   /\ trace[m].r = "ok"
    /\ \A k \in Idx :
         (trace[k].e = "lock" /\ trace[k].u = cfg.host) =>
             \E m \in 1..(k - 1) : /\ trace[m].e = "lock"
                                   /\ trace[m].u = cfg.bmc
                                   /\ trace[m].r = "ok"
    /\ \A k \in Idx :
         (trace[k].e = "unlock" /\ trace[k].u = cfg.bmc) =>
             CountUnlock(cfg.host, k - 1) > CountUnlock(cfg.bmc, k - 1)
    /\ \A k \in Idx :
         IsGuardStop(trace[k]) =>
             /\ CountUnlock(cfg.host, k - 1) > 0
             /\ CountUnlock(cfg.bmc, k - 1) = CountUnlock(cfg.host, k - 1)

\* The guard and both updaters were locked, HIOMAPD suspended, and all of
\* them released again.
C6_Witness ==
    /\ \E k \in Idx : trace[k].e = "Suspend" /\ trace[k].r = "ok"
    /\ \E k \in Idx : IsGuardStop(trace[k]) /\ trace[k].r = "ok"
    /\ LocksReleased
    /\ pc = "tail"

\* ---- C7
BiosHwOps ==
    { "setGPIOOutput", "releaseGPIO", "openI2CDevice", "setOEPol",
      "clearOEPol", "unbindSPIDriver", "bindSPIDriver" }

IsBiosHwOp(ev) == ev.u = "BIOS" /\ ev.e \in BiosHwOps

\* C7: once BIOSUpdater::lock() is called, a GPIO line, the I2C expander
\* or the SPI driver is touched only after it has seen the chassis off
\* (with --force lock() is not called); when it sees the chassis
\* on it throws, no such operation has happened or happens later, and
\* `locked` stays false.
C7_BiosLockChassisFirst ==
    /\ \A k \in Idx :
         ( /\ IsBiosHwOp(trace[k])
           /\ \E m \in 1..(k - 1) : /\ trace[m].e = "lock"
                                     /\ trace[m].u = "BIOS" ) =>
             \E m \in 1..(k - 1) : /\ trace[m].e = "isChassisOn"
                                   /\ trace[m].u = "BIOS"
                                   /\ trace[m].r = "false"
    /\ (\E k \in Idx : /\ trace[k].e = "isChassisOn"
                       /\ trace[k].u = "BIOS"
                       /\ trace[k].r = "true") =>
         /\ \A k \in Idx : ~IsBiosHwOp(trace[k])
         /\ \E k \in Idx : /\ trace[k].e = "lock"
                           /\ trace[k].u = "BIOS"
                           /\ trace[k].r = "throw"
         /\ exc = "The host is running now, operation cancelled!"
         /\ \A k \in 1..Len(updaters) : ~updaters[k].locked
         /\ bios = NullBios
         /\ hw.spiBound /\ ~hw.oepol

\* BIOSUpdater::lock() found the chassis on and the process has ended.
C7_Witness ==
    /\ \E k \in Idx : /\ trace[k].e = "isChassisOn"
                      /\ trace[k].u = "BIOS"
                      /\ trace[k].r = "true"
    /\ pc = "done"
    /\ exitCode = EXIT_FAILURE

\* ---- C8
\* C8: every Suspend sent by OpenPowerUpdater::lock() comes after it has seen
\* the chassis off; when it sees the chassis on it throws, no Suspend is
\* ever sent, HIOMAPD stays active and `locked` stays false.
C8_SuspendAfterHostOff ==
    /\ \A k \in Idx :
         trace[k].e = "Suspend" =>
             \E m \in 1..(k - 1) : /\ trace[m].e = "isChassisOn"
                                   /\ trace[m].u = "PNOR"
                                   /\ trace[m].r = "false"
    /\ (\E k \in Idx : /\ trace[k].e = "isChassisOn"
                       /\ trace[k].u = "PNOR"
                       /\ trace[k].r = "true") =>
         /\ \A k \in Idx : trace[k].e # "Suspend"
         /\ \E k \in Idx : /\ trace[k].e = "lock"
                           /\ trace[k].u = "PNOR"
                           /\ trace[k].r = "throw"
         /\ exc = "The host is running now, operation cancelled"
         /\ \A k \in 1..Len(updaters) : ~updaters[k].locked
         /\ hw.daemonState = 0

\* OpenPowerUpdater::lock() found the chassis on and the process has ended.
C8_Witness ==
    /\ \E k \in Idx : /\ trace[k].e = "isChassisOn"
                      /\ trace[k].u = "PNOR"
                      /\ trace[k].r = "true"
    /\ pc = "done"
    /\ exitCode = EXIT_FAILURE

\* ---- C9
\* C9: FwUpdBase::install(reset) of an updater without files only returns
\* false: no hook is entered, no external operation happens, nothing is
\* thrown and `ret` of FwUpdate::install is not raised.
C9_EmptyInstallNoOp ==
    [][(pc = "install" /\ updaters[i].files = << >>)
       => /\ trace' = Append(trace, Ev("install", updaters[i].kind, "",
                                       "false"))
          /\ ret' = ret
          /\ exc' = exc
          /\ hw' = hw
          /\ bios' = bios]_vars

\* ---- C10
\* C10: while a package is flashed, lock() of an updater that owns none of
\* its files returns without any external operation and without an
\* exception, and so does its verify().
C10_EmptyLockVerifyNoOp ==
    [][/\ (/\ opt.mode = "flash"
           /\ pc = "lock_upd"
           /\ updaters[LockAt(i)].files = << >>)
          => /\ trace' = Append(trace, Ev("lock", updaters[LockAt(i)].kind,
                                          "", "ok"))
             /\ exc' = exc
             /\ hw' = hw
             /\ bios' = bios
             /\ updaters' = updaters
       /\ (pc = "verify_upd" /\ updaters[i].files = << >>)
          => /\ \A k \in (Len(trace) + 1)..Len(trace') :
                  trace'[k].e = "verified"
             /\ exc' = exc]_vars

\* ---- C11
\* The hooks FwUpdBase::install has to enter for updater u, in order.
HooksOf(u) ==
    << Ev("doBeforeInstall", u.kind, "", "ok") >>
    \o [k \in 1..Len(u.files) |->
          Ev("doInstall", u.kind, filename(u.files[k]), "ok")]
    \o << Ev("doAfterInstall", u.kind, "", "ok") >>

IsPrefix(s, t) == Len(s) <= Len(t) /\ s = SubSeq(t, 1, Len(s))

\* C11: FwUpdBase::install(reset) of an updater with files enters
\* doBeforeInstall once, then doInstall once for each file in the order the
\* files were added, then doAfterInstall once, and returns what
\* doAfterInstall returns; when a step throws, the hooks entered so far are
\* a beginning of that sequence, so no doInstall precedes doBeforeInstall
\* and doAfterInstall follows the last doInstall.
C11_InstallHookOrder ==
    [][(pc = "install" /\ updaters[i].files # << >>)
       => LET u == updaters[i]
              new == SubSeq(trace', Len(trace) + 1, Len(trace'))
              hooks == SelectSeq(new, IsInstallStep)
          IN /\ Len(new) >= 1
             /\ new[1].e = "install" /\ new[1].u = u.kind
             /\ IsPrefix(hooks, HooksOf(u))
             /\ (new[1].r # "throw")
                   => /\ hooks = HooksOf(u)
                      /\ new[1].r = (IF doAfterInstall_ret(cfg.rev, u)
                                     THEN "true" ELSE "false")
                      /\ ret' = (ret \/ doAfterInstall_ret(cfg.rev, u))
                      /\ exc' = exc]_vars

\* An install of two files of one updater has returned: both files were
\* written, in the order of the package, before doAfterInstall.
C11_Witness ==
    \E a, b, c \in Idx :
        /\ a < b /\ b < c
        /\ trace[a].e = "doInstall" /\ trace[b].e = "doInstall"
        /\ trace[a].u = trace[b].u /\ trace[a].a # trace[b].a
        /\ trace[c].e = "doAfterInstall" /\ trace[c].u = trace[a].u
        /\ \E k \in Idx : /\ k < a
                          /\ trace[k].e = "install"
                          /\ trace[k].u = trace[a].u
                          /\ trace[k].r = "true"

\* ---- C12
\* The results the updaters' install() gave, in the order of the calls.
InstallResults == SelectSeq(trace, LAMBDA ev : ev.e = "install")

\* C12: when FwUpdate::install(reset) has returned, install(reset) was
\* called once on every registered updater, in the order of registration,
\* and the value returned is true exactly when one of them returned true.
C12_InstallOrsResults ==
    (pc = "tail" /\ ctx = "install")
    => /\ Len(InstallResults) = Len(updaters)
       /\ \A k \in 1..Len(updaters) :
            /\ InstallResults[k].u = updaters[k].kind
            /\ InstallResults[k].r \in { "true", "false" }
       /\ ret = (\E k \in 1..Len(InstallResults) :
                    InstallResults[k].r = "true")

\* FwUpdate::install has returned true although the host updater, which
\* had a file to write, returned false.
C12_Witness ==
    /\ pc = "tail" /\ ctx = "install"
    /\ ret
    /\ \E k \in 1..Len(updaters) :
        /\ updaters[k].files # << >>
        /\ InstallResults[k].r = "false"

\* ---- C13
\* The package holds image-bmc and nothing else, as an archive or as the
\* bare file, and the build has the OpenBMC image updater.
OnlyImageBmc ==
    /\ cfg.bmc = "OBMC"
    /\ \/ pkg.files = << Path("image-bmc", "") >>
       \/ pkg.name = Path("image-bmc", "")

\* C13: when FwUpdate::install has returned for a package whose only
\* payload is image-bmc, the copy of OBMCPhosphorImageUpdater::doInstall
\* ran exactly once, the host updater owns no file and entered no install
\* hook and ran no tool, and the value returned is true.
C13_ImageBmcEndToEnd ==
    (pc = "tail" /\ ctx = "install" /\ OnlyImageBmc)
    => /\ Cardinality({ k \in Idx : /\ trace[k].u = "OBMC"
                                    /\ trace[k].e = "cmd"
                                    /\ trace[k].a = "copy" }) = 1
       /\ Cardinality({ k \in Idx : /\ trace[k].u = "OBMC"
                                    /\ trace[k].e = "doInstall" }) = 1
       /\ updaters[1].kind = cfg.host
       /\ updaters[1].files = << >>
       /\ updaters[2].files = << Path("image-bmc", "") >>
       /\ \A k \in Idx :
            trace[k].u = cfg.host
            => /\ ~IsInstallStep(trace[k])
               /\ trace[k].e = "install" => trace[k].r = "false"
               /\ \A j \in Idx :
                    (j < k /\ trace[j].e = "install"
                           /\ trace[j].u = cfg.host)
                    => trace[k].e # "cmd"
       /\ ret

\* image-bmc, signed and verified, has been installed from an archive.
C13_Witness ==
    /\ pc = "tail" /\ ctx = "install"
    /\ cfg.bmc = "OBMC"
    /\ pkg.files = << Path("image-bmc", "") >>
    /\ ~opt.skip_sign_check
    /\ \E k \in Idx : trace[k].e = "verified"
    /\ \E k \in Idx : trace[k].e = "cmd" /\ trace[k].a = "copy"
    /\ ret

\* ---- C14
\* Both machine names are known and they differ.
MachineMismatch ==
    /\ hw.machine # ""
    /\ pkg.machine # ""
    /\ hw.machine # pkg.machine

\* C14: when the MANIFEST names a machine and the BMC reports another one,
\* FwUpdate::verify() fails, so it never completes; when the BMC reports no
\* machine name the check cannot fail verify().
C14_VerifyChecksMachine ==
    /\ MachineMismatch => \A k \in Idx : trace[k].e # "verified"
    /\ hw.machine = ""
         => \A k \in Idx : ~(/\ trace[k].e = "checkMachineType"
                             /\ trace[k].r = "throw")

\* ---- C15
\* C15: checkMachineType() fails exactly when the machine name of the
\* MANIFEST and that of the BMC are both known and differ.
C15_MachineCheckIff ==
    \A k \in Idx :
        trace[k].e = "checkMachineType"
        => ((trace[k].r = "throw") <=> MachineMismatch)

\* ---- C16
\* The entry validates the MANIFEST and the publickey of the package.
Validates(entry) == entry.manifest = "valid" /\ entry.publickey = "valid"

\* The entries the loop has to try: all up to the first that validates.
Tried(store) ==
    { k \in 1..Len(store.entries) :
        \A m \in 1..(k - 1) : ~Validates(store.entries[m]) }

\* The calls of verifyFile() of systemLevelVerify(), as << entry, file >>
\* pairs in the order of the trace.
StoreCalls == SelectSeq(trace, LAMBDA ev : ev.e = "verifyFile" /\ ev.u = "fw")

\* C16: systemLevelVerify() succeeds exactly when the trust store can be
\* listed and one of its entries validates both the MANIFEST and the
\* publickey; it never succeeds when one of the two files is not in the
\* package; the entries are tried in order, an entry that does not
\* validate (verifyFile() false or an exception) is followed by the next
\* one, the publickey is tried only after the MANIFEST passed, and nothing
\* is tried after the first entry that validates.
C16_SystemLevelVerify ==
    /\ \A k \in Idx :
        trace[k].e = "systemLevelVerify"
        => /\ (trace[k].r = "ok")
                <=> (/\ hw.store.readable
                     /\ \E m \in 1..Len(hw.store.entries) :
                           Validates(hw.store.entries[m]))
           /\ LET tried == IF hw.store.readable THEN Tried(hw.store)
                           ELSE {}
                  calls(m) ==
                    IF hw.store.entries[m].manifest = "valid"
                    THEN << Ev("verifyFile", "fw", "MANIFEST", "valid"),
                            Ev("verifyFile", "fw", "publickey",
                               hw.store.entries[m].publickey) >>
                    ELSE << Ev("verifyFile", "fw", "MANIFEST",
                               hw.store.entries[m].manifest) >>
              IN StoreCalls =
                   Flatten([m \in 1..Cardinality(tried) |-> calls(m)])
    /\ \A k \in Idx :
        (trace[k].e = "getFWFile" /\ trace[k].r = "throw")
        => /\ StoreCalls = << >>
           /\ \A m \in Idx : trace[m].e # "systemLevelVerify"
           /\ \A m \in Idx : trace[m].e # "verified"

\* systemLevelVerify() has succeeded with the second entry of the trust
\* store, after the first one validated the MANIFEST but not the
\* publickey.
C16_Witness ==
    /\ Len(hw.store.entries) = 2
    /\ hw.store.entries[1] = TrustEntry("valid", "mismatch")
    /\ Validates(hw.store.entries[2])
    /\ \E k \in Idx : trace[k].e = "systemLevelVerify" /\ trace[k].r = "ok"
    /\ Len(StoreCalls) = 4

\* ---- C17
\* unpack() has offered the files of the archive to the updaters, which
\* still exist.
Unpacked ==
    /\ updaters # << >>
    /\ \E k \in Idx : /\ trace[k].e = "cmd" /\ trace[k].a = "tar"
                      /\ trace[k].r = "ok"

Owners(file) ==
    { k \in 1..Len(updaters) :
        \E m \in 1..Len(updaters[k].files) : updaters[k].files[m] = file }

UnpackedOnly(parts) == Unpacked /\ pkg.files = << PathOf(parts) >>

\* The updater of this class, if the build has it, owns exactly that file.
OwnedBy(kind, parts) ==
    \A k \in 1..Len(updaters) :
        updaters[k].kind = kind
        => updaters[k].files = << PathOf(parts) >>

IsInstallCmd(ev) == ev.e = "cmd" /\ ev.u \in Kinds

\* Nothing of any install comes after position k of the trace.
InstallEndsAt(k) ==
    \A m \in Idx :
        m > k => /\ ~IsInstallStep(trace[m])
                 /\ ~IsInstallCmd(trace[m])
                 /\ trace[m].e # "install"

\* C19 as stated: a tool of an install that exits with a status other than
\* zero, whether the caller throws or not, ends the install there.
C19_AnyToolFailureAborts ==
    opt.mode = "flash"
    => \A k \in Idx :
        (IsInstallCmd(trace[k]) /\ trace[k].r \in { "throw", "nonzero" })
        => InstallEndsAt(k)

\* The queries of the U-Boot variable bootside, which getBootPart() and
\* setBootPart() run inside try { } catch (...) { }.
BootsideProbes ==
    { "fw_printenv bootside", "fw_printenv -n bootside",
      "fw_setenv bootside a", "fw_setenv bootside b" }

\* C19: every tool of an install has its exit status checked, but for the
\* queries of bootside, whose failure selects the bootcmd way; a tool whose
\* status is checked and is not zero ends the install there: no hook and no
\* operation of this or a later updater follows, nothing is undone, and
\* FwUpdate::install does not return.
C19_ToolFailureAborts ==
    opt.mode = "flash"
    => \A k \in Idx :
        IsInstallCmd(trace[k])
        => /\ trace[k].a \notin BootsideProbes => trace[k].r # "nonzero"
           /\ (trace[k].a \notin BootsideProbes /\ trace[k].r # "ok")
                => /\ trace[k].r = "throw"
                   /\ InstallEndsAt(k)
                   /\ exc # "none"
                   /\ ~(pc = "tail" /\ ctx = "install")
                   /\ ~ret

\* A tool failed after an earlier operation of the same updater had
\* succeeded, and the program has ended.
C19_Witness ==
    /\ opt.mode = "flash"
    /\ pc = "done"
    /\ exitCode = EXIT_FAILURE
    /\ \E k, m \in Idx :
        /\ k < m
        /\ IsInstallCmd(trace[k]) /\ trace[k].r = "ok"
        /\ IsInstallCmd(trace[m]) /\ trace[m].r = "throw"
        /\ trace[k].u = trace[m].u
        /\ trace[Len(trace)].e = "remove_all"

\* ---- C20
\* The operations that save a region before the flash is written: the
\* NVRAM partition read by pflash, the NVRAM region read by dd, and the
\* test that dd has left a dump file.
PreservationDumps ==
    { "pflash -P NVRAM -r", "dd NVRAM", "exists NVRAM dump" }

\* C20: a preservation dump that fails does not abort the install: no dump
\* operation ends with an exception, and the updater goes on to write every
\* one of its files.
C20_DumpFailureTolerated ==
    opt.mode = "flash"
    => \A k \in Idx :
        (IsInstallCmd(trace[k]) /\ trace[k].a \in PreservationDumps)
        => trace[k].r # "throw"

\* ---- C21
\* The operations of the host updaters that read the NVRAM before the flash
\* is written, and those that write it back.
NvramDumps == { "pflash -P NVRAM -r", "dd NVRAM" }
NvramRestores == { "pflash -f -e -P NVRAM -p", "mtd-util cp NVRAM" }

\* The dump of this install has succeeded: the tool has ended well and the
\* dump file was found after it.
DumpSucceeded(new) ==
    /\ \E k \in 1..Len(new) : /\ new[k].a \in NvramDumps /\ new[k].r = "ok"
    /\ \E k \in 1..Len(new) :
        \/ new[k].e = "exists" /\ new[k].a = "NVRAM" /\ new[k].r = "true"
        \/ new[k].a = "exists NVRAM dump" /\ new[k].r = "ok"

\* C21: an install of a host updater (PNOR, BIOS) with the factory-reset
\* flag reads no NVRAM dump and writes none back; without the flag, when the
\* dump has succeeded and the install returns, the NVRAM is written back
\* after the last doInstall, and in no case before a doInstall.
C21_ResetSkipsPreservation ==
    [][(pc = "install" /\ updaters[i].kind \in { "PNOR", "BIOS" })
       => LET new == SubSeq(trace', Len(trace) + 1, Len(trace'))
              N == 1..Len(new)
              Restored(k) == new[k].e = "cmd" /\ new[k].a \in NvramRestores
          IN /\ opt.reset
                => \A k \in N : new[k].a \notin NvramDumps \cup NvramRestores
             /\ (~opt.reset /\ DumpSucceeded(new) /\ new[1].r # "throw")
                => \E k \in N : Restored(k) /\ new[k].r = "ok"
             /\ \A k, m \in N :
                  (Restored(k) /\ new[m].e = "doInstall") => m < k]_vars

\* A host updater has read the NVRAM, written its file, and then written
\* the NVRAM back.
C21_Witness ==
    /\ ~opt.reset
    /\ \E d, w, r \in Idx :
        /\ d < w /\ w < r
        /\ trace[d].a \in NvramDumps /\ trace[d].r = "ok"
        /\ trace[w].e = "doInstall" /\ trace[w].u = trace[d].u
        /\ trace[r].a \in NvramRestores /\ trace[r].r = "ok"
        /\ trace[r].u = trace[d].u

\* ---- C22
\* The side the BMC runs from, as the U-Boot environment printed during this
\* install tells it: from bootside, or from the address of bootcmd.
ActiveSide(new) ==
    LET Printed(s) == \E k \in 1..Len(new) :
                         new[k].e = "stdout" /\ new[k].a = s
    IN IF \/ Printed(fw_printenv("bootside", "a"))
          \/ Printed(fw_printenv("bootcmd", "bootm " \o BootAddress("image_a")))
       THEN "image_a"
       ELSE IF \/ Printed(fw_printenv("bootside", "b"))
               \/ Printed(fw_printenv("bootcmd",
                                      "bootm " \o BootAddress("image_b")))
       THEN "image_b"
       ELSE "unknown"

\* The operations that write a side and those that select it for the next
\* boot.
WriteOf(part) ==
    IF part = "image_a" THEN "flashcp /dev/mtd/image-a"
    ELSE "flashcp /dev/mtd/image-b"
SelectOf(part) ==
    { "fw_setenv bootside " \o (IF part = "image_a" THEN "a" ELSE "b"),
      "fw_setenv bootcmd bootm " \o BootAddress(part) }

\* C22: an install of image-runtime by the network-boot updater writes the
\* image to the side the BMC does not run from, whichever side that is, and
\* once the write has succeeded selects the side just written for the next
\* boot; when the active side cannot be told, the install throws and writes
\* nothing.
C22_WritesInactiveSide ==
    [][(pc = "install" /\ updaters[i].kind = "INTEL"
        /\ Path("image-runtime", "") \in
               { updaters[i].files[k] : k \in 1..Len(updaters[i].files) })
       => LET new == SubSeq(trace', Len(trace) + 1, Len(trace'))
              N == 1..Len(new)
              active == ActiveSide(new)
              Wrote(k, part) == new[k].e = "cmd" /\ new[k].a = WriteOf(part)
          IN /\ \A k \in N : ~Wrote(k, active)
             /\ \A part \in { "image_a", "image_b" } : \A k \in N :
                  (Wrote(k, part) /\ new[k].r = "ok")
                  => \E m \in N :
                        /\ m > k
                        /\ new[m].a \in SelectOf(part)
                        /\ new[m].r = "ok" \/ new[1].r = "throw"
             /\ active = "unknown"
                => /\ new[1].r = "throw"
                   /\ \A k \in N : \A part \in { "image_a", "image_b" } :
                        ~Wrote(k, part)]_vars

\* ------------------------------------------------------------------- C23
\* Where the 10GBE region starts in a file.
RegionOf(file) == IF file.size = nvmSize THEN 0 ELSE nvmOffset

\* The object was constructed on the secondary bank: the control word of
\* the primary bank is not the valid marker and that of the secondary is.
OnSecondaryBank ==
    /\ frame.fn = "NvmX722" /\ frame.pc # "new"
    /\ frame.last.op # "NvmX722" \/ frame.last.what = ""
    /\ frame.nvm.start = RegionOf(frame.file) + bankSize

\* C23: when the primary bank's control word is not the valid marker and
\* the secondary bank's is, every range of the file that getMac, setMac and
\* the checksum read or write lies in the secondary bank and the bytes of
\* the primary bank stay as they were; when neither control word is valid,
\* the construction fails with "No valid bank in 10GBE".
C23_SecondaryBankOnly ==
    frame.fn = "NvmX722" =>
        /\ OnSecondaryBank =>
            /\ \A t \in frame.touched :
                  /\ t[1] >= frame.nvm.start
                  /\ t[1] + t[2] <= frame.nvm.start + bankSize
            /\ \A b \in DOMAIN frame.file.words :
                  b < frame.nvm.start
                     => Rd(frame.nvm.words, b) = frame.file.words[b]
        /\ ( /\ frame.pc # "new"
             /\ frame.file.size >= RegionOf(frame.file) + nvmSize
             /\ Rd(frame.file.words, RegionOf(frame.file)) # bankValid
             /\ Rd(frame.file.words, RegionOf(frame.file) + bankSize)
                   # bankValid )
              => /\ frame.pc = "thrown"
                 /\ frame.last = [op |-> "NvmX722",
                                  what |-> "No valid bank in 10GBE"]

\* ------------------------------------------------------------------- C24
\* A step that is setMac(getMac()) returning normally: the addresses
\* passed are those the bank holds.
SetMacOfGetMac ==
    /\ frame.fn = "NvmX722" /\ frame.pc = "open"
    /\ frame'.last.op = "setMac" /\ frame'.last.ok
    /\ getMac(frame.nvm).ok
    /\ frame'.last.mac = getMac(frame.nvm).mac

StoredChecksum(nvm) == Rd(nvm.words, nvm.start + checksumOffset * 2)

\* C24 as stated: for every image the patcher accepts, setMac(getMac())
\* leaves the stored checksum word as it was before the call.
C24_StoredChecksumKept ==
    [][SetMacOfGetMac
         => StoredChecksum(frame'.nvm) = StoredChecksum(frame.nvm)]_vars

\* C24 amended: for every image the patcher accepts, setMac(getMac())
\* leaves the recomputed checksum of the bank as it was before the call and
\* stores it in the checksum word; the stored word is unchanged when it was
\* the checksum of the bank before the call.
C24_RecomputedChecksumKept ==
    [][SetMacOfGetMac
         => /\ calcChecksum(frame'.nvm) = calcChecksum(frame.nvm)
            /\ StoredChecksum(frame'.nvm) = calcChecksum(frame.nvm)
            /\ StoredChecksum(frame.nvm) = calcChecksum(frame.nvm)
                  => frame'.nvm.words = frame.nvm.words]_vars

\* setMac() has returned after writing back the addresses getMac() read
\* from an image whose stored checksum was that of its bank.
C24_Witness ==
    /\ frame.fn = "NvmX722" /\ frame.pc = "open"
    /\ frame.last.op = "setMac" /\ frame.last.ok
    /\ frame.mac # << >> /\ frame.last.mac = frame.mac
    /\ frame.nvm.words = frame.file.words
    /\ StoredChecksum(frame.nvm) = calcChecksum(frame.nvm)

\* ------------------------------------------------------------------- C25
\* FwUpdate::install() or FwUpdate::reset() has returned normally to
\* flash_firmware() or reset_firmware(): its unlock() ended and no
\* exception but that of reboot() was raised.
OperationReturned ==
    /\ \E k \in 1..Len(trace) : trace[k] = Ev("unlocked", "fw", "", "")
    /\ exc \in { "none", "The BMC needs to be manually rebooted." }

\* The user declined the update at the prompt of flash_firmware() or
\* reset_firmware(): nothing was attempted.
Declined ==
    \E k \in 1..Len(trace) : trace[k] = Ev("confirm", "main", "", "false")

\* /sbin/reboot was run and failed.
RebootFailed ==
    \E k \in 1..Len(trace) : trace[k] = Ev("cmd", "main", "/sbin/reboot", "throw")

\* C25: the exit code is 0 if and only if the requested operation completed
\* without failure (or was declined before anything was attempted), for
\* every combination of --yes, reset, no-sign and force and whether or not
\* the install reported that a reboot is required; a failure yields a
\* non-zero exit code with its message.
C25_ExitCodeZeroIffCompleted ==
    pc = "done" =>
        /\ exitCode = EXIT_SUCCESS
              <=> (Declined \/ (OperationReturned /\ ~RebootFailed))
        /\ exitCode # EXIT_SUCCESS => exitCode = EXIT_FAILURE /\ exc # "none"

\* ------------------------------------------------------------------- C26
\* C26: whenever BIOSUpdater::lock() has returned or raised with the
\* PCH-power GPIO held by the process, the locked flag is true; so once the
\* unlock() that follows has returned, no GPIO line is held, the descriptor
\* of the expander is closed and the OEPol bit is clear.
C26_LockedWhilePCHHeld ==
    /\ \A k \in DOMAIN updaters :
          (updaters[k].kind = "BIOS" /\ bios.gpioPCHPower = "held")
             => updaters[k].locked
    /\ pc = "dtor" => (bios = NullBios /\ ~hw.oepol)

\* ------------------------------------------------------------------- C28
\* C28: whenever the BIOS-select GPIO is held by the process the PCH-power
\* GPIO is held too, whatever step of lock() or unlock() failed.
C28_PCHOutlivesMux ==
    bios.gpioBIOSSel = "held" => bios.gpioPCHPower = "held"

\* lock() failed after it had taken the BIOS-select GPIO (the SPI driver
\* could not be bound again, or the flash-select GPIO was refused).
C28_Witness ==
    /\ bios.gpioBIOSSel = "held" /\ bios.gpioPCHPower = "held"
    /\ exc = "BIOS lock failed"
    /\ \E k \in DOMAIN updaters :
          updaters[k].kind = "BIOS" /\ updaters[k].locked

\* ------------------------------------------------------------------- C27
\* A step that acquires, changes or releases the BIOS-select GPIO or the
\* flash-select (golden flash) GPIO.
MuxEvent(ev) ==
    /\ ev.u = "BIOS"
    /\ ev.e \in { "setGPIOOutput", "set_value", "releaseGPIO" }
    /\ ev.a \in { "BIOSSel", "Active" }

\* C27: the BIOS-select and the flash-select GPIO are acquired, changed or
\* released only while the SPI driver is unbound as the program last saw
\* it: in lock() the unbind completes before either line is driven and the
\* driver is bound again only after both, in the golden-flash switch of
\* doInstall the unbind precedes the change of value, and in unlock() the
\* unbind completes before either line is released.
C27_MuxOnlyWhileUnbound ==
    \A k \in 1..Len(trace) :
        MuxEvent(trace[k]) => ~SpiAfter(TRUE, SubSeq(trace, 1, k - 1))

\* An install with the golden flash has gone through all three sequences:
\* lock() drove both lines, doInstall swapped the chip select and wrote the
\* image, unlock() released both lines.
C27_Witness ==
    LET At(ev) == { k \in 1..Len(trace) : trace[k] = ev }
    IN /\ pc = "done"
       /\ \E a \in At(Ev("setGPIOOutput", "BIOS", "BIOSSel", "ok")) :
          \E b \in At(Ev("set_value", "BIOS", "Active", "ok")) :
          \E c \in At(Ev("cmd", "BIOS", "flashcp -v", "ok")) :
          \E d \in At(Ev("releaseGPIO", "BIOS", "BIOSSel", "ok")) :
             a < b /\ b < c /\ c < d

\* ------------------------------------------------------------------- C29
\* What holds of bindOrUnbindSPIDriver at every step.
PollingBounded ==
    frame.fn = "bindOrUnbindSPIDriver" =>
        /\ frame.checks <= maxDriverBindingChecks
        /\ frame.checks = frame.i + frame.matches
                            + (IF frame.pc = "sleep" THEN 1 ELSE 0)
        /\ frame.slept = delayBetweenChecksMS * frame.i
        /\ frame.matches = (IF frame.pc = "returned" THEN 1 ELSE 0)
        /\ frame.pc = "returned" => frame.seen = frame.action
        /\ (frame.pc = "thrown" /\ frame.checks > 0)
              => /\ frame.checks = maxDriverBindingChecks
                 /\ frame.what = "The SPI driver binding/unbinding timed out!"

PollingDone ==
    frame.fn = "bindOrUnbindSPIDriver" /\ frame.pc \in { "returned", "thrown" }

\* C29: after writing the request bindOrUnbindSPIDriver makes at most 100
\* checks with a sleep of 20 ms after each that fails, returns at the first
\* check that sees the requested state and never while the state seen
\* differs, throws "timed out" when none of the 100 checks sees it, and
\* always comes to an end.
C29_PollingTerminates == []PollingBounded /\ <>PollingDone

\* The time-out: a hundred checks, none saw the requested state.
C29_Witness ==
    /\ frame.fn = "bindOrUnbindSPIDriver" /\ frame.pc = "thrown"
    /\ frame.checks = maxDriverBindingChecks /\ frame.matches = 0
    /\ frame.slept = 2000

\* ------------------------------------------------------------------- C30
\* What holds of unmountFilesystem at every step.
UmountBounded ==
    frame.fn = "unmountFilesystem" =>
        /\ frame.tryNumber <= maxTries
        /\ frame.attempts <= maxTries + 1
        /\ frame.attempts = frame.tryNumber
                              + (IF frame.pc \in { "returned", "thrown" }
                                 THEN 1 ELSE 0)
        /\ frame.slept = delay * (frame.tryNumber
                                    - (IF frame.pc = "usleep" THEN 1 ELSE 0))
        /\ frame.pc = "usleep" => frame.rc = "EBUSY"
        /\ frame.pc = "umount" => frame.rc \in { "none", "EBUSY" }
        /\ frame.pc = "returned" => frame.rc = "ok"
        /\ frame.pc = "thrown"
              => \/ frame.rc = "other"
                 \/ frame.rc = "EBUSY" /\ frame.attempts = maxTries + 1

UmountDone ==
    frame.fn = "unmountFilesystem" /\ frame.pc \in { "returned", "thrown" }

\* C30: unmountFilesystem returns at the first umount that succeeds, throws
\* at the first failure that is not EBUSY, and on EBUSY sleeps and tries
\* again at most 40 times, throwing at the 41st busy attempt; it always
\* comes to an end.
C30_UmountTerminates == []UmountBounded /\ <>UmountDone

\* The retries are used up: the 41st umount is busy as well.
C30_Witness ==
    /\ frame.fn = "unmountFilesystem" /\ frame.pc = "thrown"
    /\ frame.rc = "EBUSY" /\ frame.attempts = 41 /\ frame.tryNumber = maxTries

\* ------------------------------------------------------------------- C33
\* 0xBABA minus the 16-bit wrapping sum of the words of the active bank
\* that lie outside the checksum word, the VPD sub-region (1024 bytes from
\* the word the VPD pointer names) and the PCIe-ALT sub-region (the last
\* 1024 bytes of the bank), stated over the bytes of the file.
BankChecksum(nvm) ==
    LET bank == nvm.start
        vpd == bank + 2 * Rd(nvm.words, bank + 2 * 47)
        summed == { b \in DOMAIN nvm.words :
                      /\ b >= bank /\ b < bank + 65536 - 1024
                      /\ b # bank + 2 * 63
                      /\ ~(b >= vpd /\ b < vpd + 1024) }
    IN (47802 - SumOver(nvm.words, summed)) % 65536

\* C33: after every setMac that got as far as msync(), the checksum word
\* stored in the active bank is 0xBABA minus the wrapping sum of the words
\* of the bank but the checksum word, the VPD and the PCIe-ALT sub-regions,
\* over the contents with the new addresses in place; it is stored in the
\* mapping before msync(), so it is there whether msync() succeeds or not.
C33_StoredChecksumIsBankSum ==
    [][(/\ frame.fn = "NvmX722" /\ frame.pc = "open"
        /\ frame'.last.op = "setMac"
        /\ setMac(frame.nvm, frame'.last.mac).ok)
         => /\ StoredChecksum(frame'.nvm) = BankChecksum(frame'.nvm)
            /\ \A b \in DOMAIN frame'.nvm.words :
                  b # frame.nvm.start + checksumOffset * 2
                     => frame'.nvm.words[b]
                          = copyMacs(frame.nvm.words, macTable(frame.nvm).ptr,
                                     frame'.last.mac, maxMac)[b]]_vars

\* setMac() has put the addresses of the flash into an image that held
\* others, and returned.
C33_Witness ==
    /\ frame.fn = "NvmX722" /\ frame.pc = "open"
    /\ frame.last.op = "setMac" /\ frame.last.ok
    /\ frame.last.mac = MacsOfFlash
    /\ getMac([frame.nvm EXCEPT !.words = frame.file.words]).mac = MacsOfImage
    /\ getMac(frame.nvm).mac = MacsOfFlash
    /\ StoredChecksum(frame.nvm) # Rd(frame.file.words,
                                      frame.nvm.start + checksumOffset * 2)

\* ------------------------------------------------------------------- C34
\* C34: setMac changes only the six address bytes of the entries of the MAC
\* table and the checksum word, all in the active bank: header words, the
\* inactive bank and every other byte of the file stay as they were, and
\* nothing outside the mapped file is read or written.
C34_SetMacFootprint ==
    [][(/\ frame.fn = "NvmX722" /\ frame.pc = "open"
        /\ frame'.last.op = "setMac")
         => LET ptr == macTable(frame.nvm).ptr
                bank == frame.nvm.start
                changed == { b \in DOMAIN frame'.nvm.words :
                               frame'.nvm.words[b] # Rd(frame.nvm.words, b) }
            IN /\ changed \subseteq
                    { ptr[k] + d : k \in 1..maxMac, d \in { 0, 2, 4 } }
                    \cup { bank + checksumOffset * 2 }
               /\ \A b \in changed : b >= bank /\ b < bank + bankSize
               /\ \A t \in frame'.touched :
                     t[1] >= 0 /\ t[1] + t[2] <= frame.nvm.size]_vars

\* ------------------------------------------------------------------- C31
\* Places of the log where a call or a delivered signal stands.
LogAt(entry) == { n \in 1..Len(frame.log) : frame.log[n] = entry }

C32_StopUnitTerminates ==
    (frame.fn = "stopUnit" /\ frame.job \in JobResults)
       ~> (frame.pc \in { "returned", "thrown" })

\* ------------------------------------------------------------------- C35
\* The tools that write a file to the flash or copy it to the staging
\* directory.
WriteCmds ==
    { "copy", "pflash -f -E -p", "flashcp -v", "flashcp /dev/mtd0",
      "flashcp /dev/mtd/image-a", "flashcp /dev/mtd/image-b",
      "flashcp /dev/mtd/u-boot" }

\* C35: doInstall of any updater on an owned file of size zero returns
\* without an error and without a flash write or a copy of the file.
C35_EmptyFileSkipped ==
    (frame.fn = "doInstall" /\ frame.pc # "call" /\ frame.env.zero)
      => /\ frame.pc = "returned"
         /\ \A k \in 1..Len(frame.events) :
               ~(frame.events[k].e = "cmd" /\ frame.events[k].a \in WriteCmds)

\* ------------------------------------------------------------------- C36
\* C36: of the partitions of a flash inventory the parser puts in the
\* clear-set those, and only those, whose line has flag F between the
\* brackets, each with ECC-required true exactly when flag E stands there
\* too.
C36_ClearSetIsFlagF ==
    (frame.fn = "getPartsToClear" /\ frame.pc = "returned")
      => /\ DOMAIN frame.ret
              = { frame.parts[k].name :
                    k \in { n \in 1..Len(frame.parts) :
                              \E f \in 1..Len(frame.parts[n].flags) :
                                  frame.parts[n].flags[f] = "F" } }
         /\ \A k \in 1..Len(frame.parts) :
               frame.parts[k].name \in DOMAIN frame.ret
                 => frame.ret[frame.parts[k].name]
                      = (\E f \in 1..Len(frame.parts[k].flags) :
                            frame.parts[k].flags[f] = "E")

\* The line `ID=06 MVPD 0x0012d000..0x001bd000 (actual=0x00090000)
\* [E--P--F-C-]` stood in the inventory after a head line and a partition
\* that is not to be cleared, and MVPD is in the clear-set with ECC.
C36_Witness ==
    /\ frame.fn = "getPartsToClear" /\ frame.pc = "returned"
    /\ Len(frame.parts) = 2
    /\ frame.info[1] # "I"
    /\ frame.parts[2] = [name |-> << "M", "V", "P", "D" >>,
                         pad |-> << " " >>,
                         flags |-> << "E", "-", "-", "P", "-", "-", "F", "-",
                                      "C", "-" >>]
    /\ DOMAIN frame.ret = { << "M", "V", "P", "D" >> }
    /\ frame.ret[<< "M", "V", "P", "D" >>]

\* ------------------------------------------------------------------- C37
\* Places of the trace where HIOMAPD took Suspend, and where it took Resume.
Suspends == { k \in Idx : trace[k] = Ev("Suspend", "PNOR", "", "ok") }

Resumes == { k \in Idx : trace[k] = Ev("Resume", "PNOR", "", "ok") }

\* This updater has suspended HIOMAPD and not resumed it since.
SuspendedByUs == \E j \in Suspends : \A m \in Resumes : m < j

\* C37: Resume is sent to HIOMAPD only after a Suspend of this updater that
\* no Resume has answered yet, and `locked` says just that; when lock()
\* finds HIOMAPD suspended it throws, and no Resume is sent from then on
\* unless the updater suspends HIOMAPD itself later.
C37_ResumeOnlyOwnSuspend ==
    /\ \A k \in Idx :
          (trace[k].e = "Resume" /\ trace[k].u = "PNOR")
            => \E j \in Suspends :
                  j < k /\ \A m \in Resumes : m < j \/ m >= k
    /\ \A n \in 1..Len(updaters) :
          updaters[n].kind = "PNOR" => (updaters[n].locked <=> SuspendedByUs)
    /\ \A k \in Idx :
          trace[k] = Ev("DaemonState", "PNOR", "", "suspended")
            => /\ trace[k - 2] = Ev("lock", "PNOR", "", "throw")
               /\ \A m \in Idx :
                     (m > k /\ trace[m].e = "Resume")
                        => \E j \in Suspends : k < j /\ j < m

\* lock() found HIOMAPD suspended by another client, and the session ended
\* with the unlock() calls made and HIOMAPD never resumed.
C37_Witness ==
    /\ pc = "done"
    /\ \E k \in Idx :
          /\ trace[k] = Ev("DaemonState", "PNOR", "", "suspended")
          /\ \E m \in Idx : m > k /\ trace[m] = Ev("unlock", "PNOR", "", "ok")
    /\ \A k \in Idx : trace[k].e # "Resume"
    /\ \A n \in 1..Len(updaters) : ~updaters[n].locked

\* ------------------------------------------------------------------- C38
\* Places of the trace where FwUpdate::unlock() returned.
UnlockPasses == { k \in Idx : trace[k] = Ev("unlocked", "fw", "", "") }

\* C38: with --force no updater's lock() is called and the reboot guard is
\* never started; the install or reset that returns has run the step of
\* every updater (reset() of each one, the install hooks of each one that
\* has files); and each unlock() of the passes that follow returns without
\* an operation on HIOMAPD, the hardware or the reboot guard.
C38_ForceSkipsLocking ==
    opt.force
      => /\ \A k \in Idx :
               /\ trace[k].e # "lock"
               /\ trace[k].e # "startUnit"
               /\ trace[k].e \notin { "Suspend", "Resume" }
         /\ OperationReturned
              => \A n \in 1..Len(updaters) :
                    IF opt.mode = "reset"
                    THEN \E k \in Idx :
                            trace[k] = Ev("reset", updaters[n].kind, "", "ok")
                    ELSE updaters[n].files # << >>
                           => \A h \in 1..Len(HooksOf(updaters[n])) :
                                 \E k \in Idx : trace[k] = HooksOf(updaters[n])[h]
         /\ \A k \in Idx :
               trace[k].e = "unlock"
                 => /\ trace[k].r = "ok"
                    /\ k < Len(trace)
                         => trace[k + 1].e \in { "unlock", "unlocked" }
         /\ fw.locked = FALSE /\ hw.guard = FALSE /\ hw.daemonState = 0
         /\ bios = NullBios

\* A forced install of two updaters' files has returned, and both unlock
\* passes, that of install() and that of the destructor, are over.
C38_Witness ==
    /\ opt.force /\ opt.mode = "flash" /\ OperationReturned
    /\ Cardinality(UnlockPasses) = 2
    /\ Cardinality({ trace[k].u : k \in { n \in Idx : trace[n].e = "doInstall" } })
         = 2
    /\ Cardinality({ k \in Idx : trace[k].e = "unlock" }) = 4

\* ------------------------------------------------------------------- C39
\* The calls of lock(), of the tools and of unlock() in the order made.
TopCalls ==
    SelectSeq(frame.calls, LAMBDA ev : ev.e \in { "lock", "cmd", "unlock" })

\* Where the first of them that threw came from.
FirstFailure ==
    LET at == { k \in 1..Len(TopCalls) : TopCalls[k].r = "throw" }
        ev == TopCalls[CHOOSE k \in at : \A m \in at : k <= m]
    IN IF at = { } THEN "none"
       ELSE IF ev.e = "cmd" THEN "tool" ELSE ev.e

NvramUnlocks == { k \in 1..Len(TopCalls) : TopCalls[k].e = "unlock" }

\* C39: readNvram and writeNvram call unlock() on every way out once lock()
\* was called: once when all went well, once after a lock() that threw, and
\* a second time after the tool or the first unlock() threw; what the
\* unlock() in the handler throws goes to stderr and no further, and the
\* exception that leaves is the one of the first failure.
C39_UnlockOnEveryExit ==
    (frame.fn \in { "readNvram", "writeNvram" }
       /\ frame.pc \in { "returned", "thrown" })
      => /\ TopCalls[1].e = "lock"
         /\ NvramUnlocks # { }
         /\ TopCalls[Len(TopCalls)].e = "unlock"
         /\ frame.pc = "returned"
              => /\ FirstFailure = "none" /\ frame.exc = "none"
                 /\ Cardinality(NvramUnlocks) = 1 /\ frame.stderr = << >>
         /\ frame.pc = "thrown"
              => /\ FirstFailure # "none" /\ frame.exc = FirstFailure
                 /\ Cardinality(NvramUnlocks)
                      = IF FirstFailure = "unlock" THEN 2 ELSE 1
                 /\ (frame.stderr # << >>)
                      <=> TopCalls[Len(TopCalls)].r = "throw"

\* The first unlock() threw, the unlock() of the handler threw too and was
\* printed, and the exception of the first one left the function.
C39_Witness ==
    /\ frame.fn = "writeNvram" /\ frame.pc = "thrown"
    /\ FirstFailure = "unlock" /\ frame.exc = "unlock"
    /\ frame.stderr = << "unlock in catch" >>
    /\ Cardinality(NvramUnlocks) = 2

\* ------------------------------------------------------------------- C40
\* A call of fw_setenv that selects a boot side.
BootSelects ==
    { "fw_setenv bootside a", "fw_setenv bootside b",
      "fw_setenv bootcmd bootm " \o BootAddress("image_a"),
      "fw_setenv bootcmd bootm " \o BootAddress("image_b") }

\* The partition a flashcp of image-runtime writes to.
WrittenSide(ev) ==
    CASE ev.a = "flashcp /dev/mtd/image-a" -> "image_a"
      [] ev.a = "flashcp /dev/mtd/image-b" -> "image_b"
      [] OTHER -> "none"

\* C40: IntelPlatformsUpdater::doInstall selects a boot side only for
\* image-runtime and only after its flashcp succeeded, so that a flashcp
\* that fails leaves the selection on the side the BMC boots from, which is
\* not the side partly written; image-mtd and image-u-boot never select.
C40_FailedWriteKeepsBoot ==
    (frame.fn = "doInstall" /\ frame.kind = "INTEL" /\ frame.pc # "call")
      => /\ \A k \in 1..Len(frame.events) :
               (frame.events[k].e = "cmd" /\ frame.events[k].a \in BootSelects)
                 => /\ filename(frame.file) = "image-runtime"
                    /\ \E j \in 1..(k - 1) :
                          /\ WrittenSide(frame.events[j]) # "none"
                          /\ frame.events[j].r = "ok"
         /\ \A k \in 1..Len(frame.events) :
               (frame.events[k].r = "throw"
                  /\ WrittenSide(frame.events[k]) # "none")
                 => WrittenSide(frame.events[k]) # frame.env.bootpart

====
